---- MODULE Spec2Model ----
(***************************************************************************)
(* A model of package.js (src/package.js), the Node.js flavour of the      *)
(* registry: with_package = with_package_in_fs, fetch = readFileSync.      *)
(*                                                                         *)
(* Representation.                                                         *)
(*  - A string that the code splits on '.' (a package name) or on '/' (a   *)
(*    path, a url) is kept as the sequence of its components, i.e. as the  *)
(*    result of split; join is then concatenation of sequences.  A name    *)
(*    starting with '.' has the empty string as first component.           *)
(*  - A JavaScript value is a record [t, v]: undefined, the number 0, the  *)
(*    global object, or a reference into the heap of objects.              *)
(*  - The whole registry is a record (see Cur); every function of the      *)
(*    code is an operator from registry to registry, and an action applies *)
(*    one handler, with every call it makes, in one step.                  *)
(*  - The calls that nest (a source text that is evaluated inside          *)
(*    with_package, the rest of a forEach while the request of one element *)
(*    is served) are kept on a stack of frames inside the registry value;  *)
(*    Run executes the frames until the handler has returned.              *)
(***************************************************************************)
EXTENDS Naturals, Sequences, FiniteSets, TLC

VARIABLES
    packages,    \* var packages: name -> value
    heap,        \* the objects the values refer to
    loading,     \* var loading: the names marked true
    onloads,     \* var onloads: name -> array of callbacks
    config,      \* var config: name -> configuration
    aliases,     \* var aliases: short name -> name
    loadOrder,   \* var loadOrder: name -> number
    loadCtr,     \* package.loadOrder
    parent,      \* package.__parent
    CONFIG,      \* package.__CONFIG__
    tasks,       \* the closures handed to delay(), in order
    inflight,    \* the http requests of loadPackageFromURL not yet answered
    joins,       \* the closures of package3 calls that have dependencies
    fetches,     \* history: every fetch initiated, in order
    defcalls,    \* history: every invocation of a definition function
    cfgcalls,    \* history: every invocation of a configuration function
    errors,      \* history: the names whose load was reported failed
    completed,   \* history: every run of onPackageLoaded, with the value it saw
    subDirs,     \* subDirCount and subDirs.length of the listings being synthesized
    thrown,      \* history: the exceptions that reached the caller of a handler
    declared,    \* history: the names package.declare has marked
    pended,      \* history: the callbacks addOnLoad has queued
    found,       \* history: the findConfig calls of the embedding program, with results
    ncalls,      \* number of calls the embedding program has made
    last,        \* history: the call made by the latest step
    scanner,     \* the state of a run of the offline scanner (src/configure)
    bundler      \* the state of a run of the bundler (build)

\* The variables of the loader.
runtime == << packages, heap, loading, onloads, config, aliases, loadOrder, loadCtr,
              parent, CONFIG, tasks, inflight, joins, fetches, defcalls, cfgcalls,
              errors, completed, subDirs, thrown, declared, pended, found,
              ncalls, last >>

vars == << runtime, scanner, bundler >>

\* The number of calls of the embedding program that are explored.
MaxCalls == 3

\* The number of configuration calls and lookups that are explored.
MaxFinds == 4

\* The number of files on the command line of the offline scanner.
MaxArgs == 3

\* The number of files on the command line of the bundler.
MaxBuildArgs == 2

-----------------------------------------------------------------------------
(* Sequences and strings *)

Front(s) == SubSeq(s, 1, Len(s) - 1)

Last(s) == s[Len(s)]

\* var x = v; followed by the statements of Body.
Let(v, Body(_)) == Body(v)

\* Array.prototype.join of an array of strings, each kept as its components.
RECURSIVE Flatten(_)
Flatten(ss) == IF ss = << >> THEN << >> ELSE Head(ss) \o Flatten(Tail(ss))

-----------------------------------------------------------------------------
(* Values and objects *)

Undef == [t |-> "undefined", v |-> 0]

Zero == [t |-> "number", v |-> 0]

Global == [t |-> "global", v |-> 0]

Ref(i) == [t |-> "ref", v |-> i]

\* JavaScript truthiness of a value: undefined and 0 are falsy.
Truthy(val) == val.t \in {"ref", "global"}

\* A fresh object literal {} or array literal.
NewObj == [fields |-> << >>, arr |-> << >>, isArr |-> FALSE]

NewArr(elems) == [fields |-> << >>, arr |-> elems, isArr |-> TRUE]

\* obj[key], undefined when absent.
GetField(hp, val, key) ==
    IF val.t = "ref" /\ key \in DOMAIN hp[val.v].fields
    THEN hp[val.v].fields[key]
    ELSE Undef

\* packages[name], undefined when absent.
PkgVal(st, name) == IF name \in DOMAIN st.packages THEN st.packages[name] ELSE Undef

-----------------------------------------------------------------------------
(* Names, paths and configurations *)

\* No string: a field that is absent from a configuration object.
NoPath == << >>

\* The result undefined of a configuration lookup.
NoCfg == [kind |-> "none", path |-> NoPath, url |-> NoPath, alias |-> << >>, fn |-> ""]

\* A configuration object {path: .., url: .., alias: ..}.
CfgObj(path, url, alias) ==
    [kind |-> "object", path |-> path, url |-> url, alias |-> alias, fn |-> ""]

\* A configuration that is a function of the remaining components.
CfgFn(fn) == [kind |-> "function", path |-> NoPath, url |-> NoPath, alias |-> << >>, fn |-> fn]

\* components.join('/') + '.js'
JsFile(components) == Front(components) \o << Last(components) \o ".js" >>

\* config['github.*'], the configuration function the registry starts with.
GithubCfg(components) ==
    IF Len(components) < 3
    THEN NoCfg
    ELSE CfgObj(NoPath,
                << "https:", "", "raw.github.com", components[1], components[2], "master" >>
                    \o JsFile(SubSeq(components, 3, Len(components))),
                << >>)

\* The function of the README's example: every sub-package has a url.
AnthillCfg(components) ==
    CfgObj(NoPath, << "http:", "", "anthill.com", "packages" >> \o JsFile(components), << >>)

\* config['github.*'] of the bundler: a project alone names its main file.
BuildGithubCfg(components) ==
    IF Len(components) < 2
    THEN NoCfg
    ELSE CfgObj(NoPath,
                << "https:", "", "raw.github.com", components[1], components[2], "master" >>
                    \o (IF Len(components) = 2
                        THEN << components[2] \o ".js" >>
                        ELSE JsFile(SubSeq(components, 3, Len(components)))),
                << >>)

\* cfg(components) for a configuration function.
ApplyCfgFn(fn, components) ==
    IF fn = "github" THEN GithubCfg(components)
    ELSE IF fn = "githubBuild" THEN BuildGithubCfg(components)
    ELSE AnthillCfg(components)

\* config[part] for the part of iteration i of findConfig's loop: the name
\* itself, then the prefixes followed by '*'.
ConfigAt(cfgmap, components, i) ==
    LET N == Len(components)
        part == IF i > 0 THEN SubSeq(components, 1, N - i) \o << "*" >> ELSE components
    IN  IF part \in DOMAIN cfgmap THEN cfgmap[part] ELSE NoCfg

\* components.slice(components.length - i)
Uncovered(components, i) == SubSeq(components, Len(components) - i + 1, Len(components))

\* The loop of findConfig from iteration i on; cfg is the value the variable
\* cfg holds when the loop ends (by break or by exhaustion), calls the
\* invocations of configuration functions made on the way.
RECURSIVE FindConfigLoop(_, _, _, _, _)
FindConfigLoop(cfgmap, components, i, cfg, calls) ==
    IF i >= Len(components) THEN [cfg |-> cfg, calls |-> calls]
    ELSE Let(ConfigAt(cfgmap, components, i), LAMBDA c :
        IF c.kind = "none" THEN FindConfigLoop(cfgmap, components, i + 1, c, calls)
        ELSE IF c.kind = "function"
        THEN Let(ApplyCfgFn(c.fn, Uncovered(components, i)), LAMBDA r :
             Let(Append(calls, [fn |-> c.fn, args |-> Uncovered(components, i)]), LAMBDA log :
                 IF r.kind # "none"
                 THEN [cfg |-> r, calls |-> log]
                 ELSE FindConfigLoop(cfgmap, components, i + 1, r, log)))
        ELSE IF i = 0 THEN [cfg |-> c, calls |-> calls]
        ELSE FindConfigLoop(cfgmap, components, i + 1, c, calls))

\* findConfig without the statement config[pkgname] = cfg
FindConfig_NoCache(st, pkgname) ==
    Let(FindConfigLoop(st.config, pkgname, 0, NoCfg, << >>), LAMBDA r :
        [st |-> [st EXCEPT !.cfgcalls = @ \o r.calls], cfg |-> r.cfg])

\* findConfig(pkgname): the configuration found and the registry after the call.
FindConfig(st, pkgname) ==
    Let(FindConfigLoop(st.config, pkgname, 0, NoCfg, << >>), LAMBDA r :
        [st |-> [st EXCEPT !.cfgcalls = @ \o r.calls,
                           !.config = IF r.cfg.kind # "none"
                                      THEN (pkgname :> r.cfg) @@ @
                                      ELSE @],
         cfg |-> r.cfg])

\* /^https?:\/\//.test(url)
IsAbsoluteURL(url) == Len(url) >= 2 /\ url[1] \in {"http:", "https:"} /\ url[2] = ""

\* name.replace(/\./g, '/') + '.js'
DerivedPath(name) == JsFile(name)

\* packagePath(name): where is the path, NoPath standing for undefined.
PackagePath(st, name) ==
    Let(FindConfig(st, name), LAMBDA r :
        [st |-> r.st,
         where |-> IF r.cfg.kind # "none" THEN r.cfg.path ELSE DerivedPath(name)])

\* packageURL(name): where is the url, NoPath standing for null.
PackageURL(st, name) ==
    Let(FindConfig(st, name), LAMBDA r :
        [st |-> r.st,
         where |-> IF r.cfg.kind # "none" /\ r.cfg.url # NoPath /\ IsAbsoluteURL(r.cfg.url)
                   THEN r.cfg.url ELSE NoPath])

\* Members of a function object: checkComponent[n] is truthy for them.
Reserved == { "constructor", "toString", "prototype", "hasOwnProperty" }

\* validPkgName with a checkComponent that finds no member under any name
ValidPkgName_NoMember(name) == \A i \in DOMAIN name : name[i] \notin {}

\* validPkgName(n) returns (does not throw)
ValidPkgName(name) == \A i \in DOMAIN name : name[i] \notin Reserved

\* knownPackage(name)
KnownPackage(st, name) ==
    IF Truthy(PkgVal(st, name)) THEN PkgVal(st, name)
    ELSE IF name = << "#global" >> THEN Global ELSE Undef

\* /^\./.test(name)
IsRelative(name) == Len(name) >= 2 /\ name[1] = ""

\* a + b for two strings, b starting with '.'
Concat(a, b) == Front(a) \o << Last(a) \o Head(b) >> \o Tail(b)

\* trueName(name)
TrueName(st, name) ==
    Let(IF IsRelative(name) THEN Concat(st.parent, name) ELSE name, LAMBDA n :
        IF n \in DOMAIN st.aliases THEN st.aliases[n] ELSE n)

\* The first components that start with '#'.
HashNames == { "#global", "#host" }

\* pseudoPackage that finds the '#' in no name
PseudoPackage_Never(name) == name[1] \in {}

\* pseudoPackage(name): name.charAt(0) === '#'
PseudoPackage(name) == name[1] \in HashNames

\* /\.[^\.]+$/ matches name
HasLastComponent(name) == Len(name) >= 2 /\ Last(name) # ""

\* name.replace(/\.[^\.]+$/, '')
ParentOf(name) == IF HasLastComponent(name) THEN Front(name) ELSE name

\* pname.replace(/\.[^\.]+$/, dep) for a dep that starts with '.'
ReplaceLast(pname, dep) == IF HasLastComponent(pname) THEN Concat(Front(pname), dep) ELSE pname

\* /^\.[^\.]+$/.test(dep)
IsSibling(dep) == Len(dep) = 2 /\ dep[1] = "" /\ dep[2] # ""

\* /\.\*$/.test(tname)
IsWildcard(tname) == Len(tname) >= 2 /\ Last(tname) = "*"

\* tname.replace(/\*$/, s) for a name whose last component is '*'
ReplaceStar(tname, s) == Front(tname) \o << s >>

\* relativePackagePath(path, pkg)
RelativePackagePath(path, pkg) == Front(path) \o << Last(pkg) \o ".js" >>

-----------------------------------------------------------------------------
(* The registry as one value *)

Cur ==
    [packages |-> packages, heap |-> heap, loading |-> loading, onloads |-> onloads,
     config |-> config, aliases |-> aliases, loadOrder |-> loadOrder, loadCtr |-> loadCtr,
     parent |-> parent, CONFIG |-> CONFIG, tasks |-> tasks, inflight |-> inflight,
     joins |-> joins, fetches |-> fetches, defcalls |-> defcalls, cfgcalls |-> cfgcalls,
     errors |-> errors, completed |-> completed, subDirs |-> subDirs, thrown |-> thrown,
     declared |-> declared, pended |-> pended, stack |-> << >>]

Becomes(st) ==
    /\ packages' = st.packages
    /\ heap' = st.heap
    /\ loading' = st.loading
    /\ onloads' = st.onloads
    /\ config' = st.config
    /\ aliases' = st.aliases
    /\ loadOrder' = st.loadOrder
    /\ loadCtr' = st.loadCtr
    /\ parent' = st.parent
    /\ CONFIG' = st.CONFIG
    /\ tasks' = st.tasks
    /\ inflight' = st.inflight
    /\ joins' = st.joins
    /\ fetches' = st.fetches
    /\ defcalls' = st.defcalls
    /\ cfgcalls' = st.cfgcalls
    /\ errors' = st.errors
    /\ completed' = st.completed
    /\ subDirs' = st.subDirs
    /\ thrown' = st.thrown
    /\ declared' = st.declared
    /\ pended' = st.pended
    /\ scanner' = scanner
    /\ bundler' = bundler

\* The value of package.__CONFIG__: undefined, {path: where} or {url: url}.
NoCONFIG == [set |-> FALSE, path |-> NoPath, url |-> NoPath]

\* A callback: onePkgLoaded of dependency i of join j ("dep"), the listing
\* callback of a wildcard dependency ("listing"), the callback of one listed
\* sub-package ("sub") and the deferred continuation of defAlias ("alias").
Callback(k, j, i, sub, name) == [k |-> k, j |-> j, i |-> i, sub |-> sub, name |-> name]

\* A definition given to package(): a function or a value.
Def(kind, elems) == [kind |-> kind, elems |-> elems]

IsFunction(def) == def.kind \in {"fnThis", "fnObject", "fnZero", "fnThrow"}

\* A statement of a source text.
Stmt(op, name, deps, def, cfg) ==
    [op |-> op, name |-> name, deps |-> deps, def |-> def, cfg |-> cfg]

\* new object: the heap with obj added, and the reference to it.
Alloc(st, obj) == [st EXCEPT !.heap = Append(@, obj)]

Newest(st) == Ref(Len(st.heap))

\* obj[key] = val for the object that ref refers to.
SetField(st, ref, key, val) ==
    [st EXCEPT !.heap[ref.v].fields = (key :> val) @@ @]

\* delay(proc), proc being the call cb(val).
Delay(st, cb, val) == [st EXCEPT !.tasks = Append(@, [cb |-> cb, v |-> val])]

\* addOnLoad(name, callback)
AddOnLoad(st, name, cb) ==
    [st EXCEPT !.onloads = IF name \in DOMAIN @
                           THEN [@ EXCEPT ![name] = Append(@, cb)]
                           ELSE (name :> << cb >>) @@ @,
               !.pended = @ \cup {cb}]

\* setPackagePatterns(components, p); every component is kept as a name,
\* since onPackageLoaded may put a dotted name in the first place.
RECURSIVE SetPackagePatterns(_, _, _)
SetPackagePatterns(st, components, p) ==
    Let(IF Len(components) > 1 THEN Flatten(Front(components)) \o << "*" >> ELSE << "*" >>,
        LAMBDA pattern :
        IF Truthy(PkgVal(st, pattern))
        THEN SetField(st, PkgVal(st, pattern), Last(components), p)
        ELSE Let(Alloc(st, [NewObj EXCEPT !.fields = (Last(components) :> p)]), LAMBDA s1 :
             Let([s1 EXCEPT !.packages = (pattern :> Newest(s1)) @@ @], LAMBDA s2 :
                 IF Len(components) > 1
                 THEN SetPackagePatterns(s2, Front(components), Newest(s1))
                 ELSE s2)))

\* A forEach that takes the callbacks from the last to the first.
RECURSIVE DelayAll_Reversed(_, _, _)
DelayAll_Reversed(st, callbacks, p) ==
    IF callbacks = << >> THEN st
    ELSE DelayAll_Reversed(Delay(st, Last(callbacks), p), Front(callbacks), p)

\* A forEach that stops after the first callback.
DelayAll_OnlyFirst(st, callbacks, p) ==
    IF callbacks = << >> THEN st ELSE Delay(st, Head(callbacks), p)

\* The callbacks.forEach of onPackageLoaded.
RECURSIVE DelayAll(_, _, _)
DelayAll(st, callbacks, p) ==
    IF callbacks = << >> THEN st
    ELSE DelayAll(Delay(st, Head(callbacks), p), Tail(callbacks), p)

\* name.split('.') with components[0] = trueName(components[0])
PatternComponents(st, name) ==
    [i \in 1..Len(name) |-> IF i = 1 THEN TrueName(st, << name[1] >>) ELSE << name[i] >>]

\* onPackageLoaded(name)
OnPackageLoaded(st, name) ==
    Let(PkgVal(st, name), LAMBDA p :
    Let(IF name \in DOMAIN st.onloads THEN st.onloads[name] ELSE << >>, LAMBDA callbacks :
    Let(SetPackagePatterns(st, PatternComponents(st, name), p), LAMBDA s1 :
    Let([s1 EXCEPT !.loading = @ \ {name},
                   !.loadOrder = (name :> s1.loadCtr) @@ @,
                   !.loadCtr = @ + 1,
                   !.completed = Append(@, [name |-> name, val |-> p])], LAMBDA s2 :
        IF Len(callbacks) > 0
        THEN DelayAll([s2 EXCEPT !.onloads = [n \in DOMAIN @ \ {name} |-> @[n]]],
                      callbacks, p)
        ELSE s2))))

\* A call of the definition function: what defcalls records.
DefCall(name, pkg, definition, dependencies) ==
    [name |-> name, self |-> pkg, args |-> dependencies, kind |-> definition.kind]

\* defWithFallback returning p in place of p === undefined ? pkg : p
DefinitionValue_NoFallback(st, name, pkg, definition, dependencies) ==
    Let([st EXCEPT !.defcalls = Append(@, DefCall(name, pkg, definition, dependencies))],
        LAMBDA called :
        CASE definition.kind = "fnThis" -> [st |-> called, val |-> Undef]
          [] definition.kind = "fnObject" ->
                [st |-> Alloc(called, NewObj), val |-> Newest(Alloc(called, NewObj))]
          [] definition.kind = "fnZero" -> [st |-> called, val |-> Zero]
          [] definition.kind = "object" ->
                [st |-> Alloc(st, NewObj), val |-> Newest(Alloc(st, NewObj))]
          [] definition.kind = "array" ->
                [st |-> Alloc(st, NewArr(definition.elems)),
                 val |-> Newest(Alloc(st, NewArr(definition.elems)))]
          [] OTHER -> [st |-> st, val |-> Zero])

\* defWithFallback(pkg, definition, dependencies) and the other arm of the
\* conditional of definePackage: the registry after the definition has been
\* evaluated (a function logs its invocation) and val, the package value.
DefinitionValue(st, name, pkg, definition, dependencies) ==
    Let([st EXCEPT !.defcalls = Append(@, DefCall(name, pkg, definition, dependencies))],
        LAMBDA called :
        CASE definition.kind = "fnThis" -> [st |-> called, val |-> pkg]
          [] definition.kind = "fnObject" ->
                [st |-> Alloc(called, NewObj), val |-> Newest(Alloc(called, NewObj))]
          [] definition.kind = "fnZero" -> [st |-> called, val |-> Zero]
          [] definition.kind = "object" ->
                [st |-> Alloc(st, NewObj), val |-> Newest(Alloc(st, NewObj))]
          [] definition.kind = "array" ->
                [st |-> Alloc(st, NewArr(definition.elems)),
                 val |-> Newest(Alloc(st, NewArr(definition.elems)))]
          [] OTHER -> [st |-> st, val |-> Zero])

-----------------------------------------------------------------------------
(* The files and the network the registry loads from *)

NoDef == Def("none", << >>)

Package2Stmt(name, def) == Stmt("package2", name, << >>, def, << >>)

Package3Stmt(name, deps, def) == Stmt("package3", name, deps, def, << >>)

ConfigStmt(cfg) == Stmt("config", << >>, << >>, NoDef, cfg)

Package1Stmt(name) == Stmt("package1", name, << >>, NoDef, << >>)

AliasesStmt(name2package) == Stmt("aliases", << >>, << >>, NoDef, name2package)

DeclareStmt(pnames) == Stmt("declare", << >>, pnames, NoDef, << >>)

\* The files of the disk, by path: what each source text executes.
Disk ==
    (<< "a", "b", "x.js" >> :>
        << Package2Stmt(<< "a", "b", "x" >>, Def("fnObject", << >>)) >>)
    @@ (<< "a", "b", "y.js" >> :>
        << Package3Stmt(<< "a", "b", "y" >>, << << "github", "u", "p", "f" >> >>,
                        Def("fnThis", << >>)) >>)
    @@ (<< "a", "b", "__listing__.js" >> :>
        << Package2Stmt(<< "a", "b", "__listing__" >>, Def("array", << "x", "y" >>)) >>)
    @@ (<< "dir", "sibling.js" >> :>
        << Package2Stmt(<< "a", "b", "sibling" >>, Def("object", << >>)) >>)
    @@ (<< "dir", "target.js" >> :>
        << Package3Stmt(<< "a", "b", "target" >>, << << "", "sibling" >> >>,
                        Def("fnObject", << >>)) >>)
    @@ (<< "c", "x.js" >> :>
        << Package2Stmt(<< "c", "x" >>, Def("fnObject", << >>)) >>)
    @@ (<< "e", "__listing__.js" >> :>
        << Package2Stmt(<< "e", "__listing__" >>, Def("array", << >>)) >>)
    @@ (<< "c", "sub", "y.js" >> :>
        << Package2Stmt(<< "c", "sub", "y" >>, Def("fnObject", << >>)) >>)
    @@ (<< "bad.js" >> :>
        << Package2Stmt(<< "bad" >>, Def("fnThrow", << >>)) >>)

\* The directories of the disk that have no __listing__.js: the .js files
\* (without the suffix) and the sub-directories that readdirSync lists.
Dirs ==
    (<< "c" >> :> [files |-> << "x" >>, dirs |-> << "sub" >>])
    @@ (<< "c", "sub" >> :> [files |-> << "y" >>, dirs |-> << "t" >>])
    @@ (<< "c", "sub", "t" >> :> [files |-> << "v" >>, dirs |-> << >>])

\* The documents of the network, by url.
Net ==
    (<< "https:", "", "raw.github.com", "u", "p", "master", "f.js" >> :>
        << Package2Stmt(<< "github", "u", "p", "f" >>, Def("fnObject", << >>)) >>)
    @@ (<< "https:", "", "raw.github.com", "u", "p", "master", "g.js" >> :>
        << Package2Stmt(<< "github", "u", "p", "g" >>, Def("fnThis", << >>)) >>)

-----------------------------------------------------------------------------
(* Loading and defining *)

\* A frame of the call stack: the statements of a source text still to be
\* evaluated ("source"), dependencies.forEach of package3 call j from
\* dependency i on ("dependencies"), p.forEach of the listing callback with
\* the names still to be requested ("subPackages").
Frame(op, source, j, i, cfg, names) ==
    [op |-> op, source |-> source, j |-> j, i |-> i, cfg |-> cfg, names |-> names,
     name |-> << >>]

Push(st, frame) == [st EXCEPT !.stack = << frame >> \o @]

\* The try block of loadPackageFromDisk(name, where) is being executed.
TryFrame(name, where) == [Frame("try", << >>, 0, 0, NoCfg, where) EXCEPT !.name = name]

\* throw what: the calls that are pending are abandoned up to the nearest try.
Throw(st, what) == Push(st, Frame("throw", << >>, 0, 0, NoCfg, << what >>))

\* An exception is on its way to the caller.
IsThrowing(st) == st.stack # << >> /\ Head(st.stack).op = "throw"

\* definePackage(name, definition, dependencies); a definition function of
\* kind "fnThrow" throws: the assignment and onPackageLoaded are not reached.
DefinePackage(st, name, definition, dependencies) ==
    Let([st EXCEPT !.parent = ParentOf(name)], LAMBDA s1 :
    Let(IF Truthy(PkgVal(s1, name)) THEN s1 ELSE Alloc(s1, NewObj), LAMBDA s2 :
    Let(IF Truthy(PkgVal(s1, name)) THEN PkgVal(s1, name) ELSE Newest(s2), LAMBDA p :
        IF definition.kind = "fnThrow"
        THEN Throw([s2 EXCEPT !.packages = (name :> p) @@ @,
                              !.defcalls = Append(@, DefCall(name, p, definition, dependencies))],
                   "Error")
        ELSE
    Let(DefinitionValue([s2 EXCEPT !.packages = (name :> p) @@ @],
                        name, p, definition, dependencies), LAMBDA r :
        OnPackageLoaded([r.st EXCEPT !.packages = (name :> r.val) @@ @], name)))))

\* package.config(setupInfo) for one entry without alias
ConfigEntry(st, p, cfg) == [st EXCEPT !.config = (p :> cfg) @@ @]

\* loadConfig(pname)
LoadConfig(st, pname) ==
    IF pname \notin DOMAIN st.config /\ st.CONFIG.set
    THEN ConfigEntry(st, pname, CfgObj(st.CONFIG.path, st.CONFIG.url, << >>))
    ELSE st

\* definePackageFromSource(name, source): the source text is evaluated next.
DefinePackageFromSource(st, name, source) ==
    Push(LoadConfig(st, name), Frame("source", source, 0, 0, NoCfg, << >>))

\* loadPackageFromURL(name, url): the request is sent, the answer comes later.
LoadPackageFromURL(st, name, url) ==
    [st EXCEPT !.inflight = Append(@, [name |-> name, url |-> url]),
               !.fetches = Append(@, [name |-> name, where |-> url, by |-> "with_package"])]

\* The map over the .js files of a directory in the catch clause:
\* package.config({parentPkg.fname: {path: dirLoc + f}}) for each file.
RECURSIVE ConfigureFiles(_, _, _, _)
ConfigureFiles(st, parentPkg, dirLoc, files) ==
    IF files = << >> THEN st
    ELSE ConfigureFiles(
             ConfigEntry(st, parentPkg \o << Head(files) >>,
                         CfgObj(dirLoc \o << Head(files) \o ".js" >>, NoPath, << >>)),
             parentPkg, dirLoc, Tail(files))

\* subDirs.forEach of the catch clause: delay(with_package(fname, ..)) for
\* the listing of each sub-directory.
RECURSIVE DelaySubDirs(_, _, _)
DelaySubDirs(st, name, dirs) ==
    IF dirs = << >> THEN st
    ELSE DelaySubDirs(Delay(st, Callback("request", 0, 0, Head(dirs), name), Undef),
                      name, Tail(dirs))

\* where.replace(/__listing__\.js$/, '')
DirLoc(where) == IF Last(where) = "__listing__.js" THEN Front(where) ELSE where

\* The catch clause of loadPackageFromDisk for a listing whose directory
\* dirLoc exists: the listing is made from the contents of the directory.
Synthesize(st, name, dirLoc) ==
    Let(ConfigureFiles(st, Front(name), dirLoc, Dirs[dirLoc].files), LAMBDA s1 :
    Let(Alloc(s1, NewArr(Dirs[dirLoc].files)), LAMBDA s2 :
    Let([s2 EXCEPT !.packages = (name :> Newest(s2)) @@ @], LAMBDA s3 :
        IF Dirs[dirLoc].dirs = << >>
        THEN OnPackageLoaded(s3, name)
        ELSE DelaySubDirs(
                 [s3 EXCEPT !.subDirs =
                     (name :> [count |-> 0, total |-> Len(Dirs[dirLoc].dirs)]) @@ @],
                 name, Dirs[dirLoc].dirs))))

\* The catch clause with delete loading[name] added to the report of a failure
Catch_Unmark(st, name, where) ==
    IF Len(name) >= 2 /\ Last(name) = "__listing__"
    THEN IF where # NoPath /\ DirLoc(where) \in DOMAIN Dirs
         THEN Synthesize(st, name, DirLoc(where))
         ELSE Throw(st, "ENOENT")
    ELSE [st EXCEPT !.errors = Append(@, name), !.loading = @ \ {name}]

\* The catch clause of loadPackageFromDisk(name, where)
Catch(st, name, where) ==
    IF Len(name) >= 2 /\ Last(name) = "__listing__"
    THEN IF where # NoPath /\ DirLoc(where) \in DOMAIN Dirs
         THEN Synthesize(st, name, DirLoc(where))
         ELSE Throw(st, "ENOENT")
    ELSE [st EXCEPT !.errors = Append(@, name)]

\* loadPackageFromDisk(name, where)
LoadPackageFromDisk(st, name, where) ==
    Let([st EXCEPT !.fetches =
            Append(@, [name |-> name, where |-> where, by |-> "with_package"])], LAMBDA s1 :
        IF where \in DOMAIN Disk
        THEN DefinePackageFromSource(
                 Push([s1 EXCEPT !.CONFIG = [set |-> TRUE, path |-> where, url |-> NoPath]],
                      TryFrame(name, where)),
                 name, Disk[where])
        ELSE Catch(s1, name, where))

\* with_package_in_fs without the branch else if (loading[name])
WithPackage_NoDedup(st, name, callback) ==
    Let(KnownPackage(st, name), LAMBDA p :
        IF Truthy(p) THEN Delay(st, callback, p)
        ELSE Let(AddOnLoad([st EXCEPT !.loading = @ \cup {name}], name, callback), LAMBDA s1 :
             IF PseudoPackage(name) THEN s1
             ELSE Let(PackageURL(s1, name), LAMBDA u :
                  IF u.where # NoPath THEN LoadPackageFromURL(u.st, name, u.where)
                  ELSE Let(PackagePath(u.st, name), LAMBDA w :
                       LoadPackageFromDisk(w.st, name, w.where)))))

\* with_package_in_fs(name, callback)
WithPackage(st, name, callback) ==
    Let(KnownPackage(st, name), LAMBDA p :
        IF Truthy(p) THEN Delay(st, callback, p)
        ELSE IF name \in st.loading THEN AddOnLoad(st, name, callback)
        ELSE Let(AddOnLoad([st EXCEPT !.loading = @ \cup {name}], name, callback), LAMBDA s1 :
             IF PseudoPackage(name) THEN s1
             ELSE Let(PackageURL(s1, name), LAMBDA u :
                  IF u.where # NoPath THEN LoadPackageFromURL(u.st, name, u.where)
                  ELSE Let(PackagePath(u.st, name), LAMBDA w :
                       LoadPackageFromDisk(w.st, name, w.where)))))

\* package2(name, definition)
Package2(st, name, definition) ==
    IF ~ValidPkgName(name) THEN Throw(st, "Invalid package component name")
    ELSE Let(TrueName(st, name), LAMBDA tname :
        DefinePackage(LoadConfig(st, tname), tname, definition, << >>))

\* package1(name); fetch is fetch_url_sync_from_fs.
Package1(st, name) ==
    IF ~ValidPkgName(name) THEN Throw(st, "Invalid package component name")
    ELSE Let(TrueName(st, name), LAMBDA tname :
        IF Truthy(PkgVal(st, tname)) THEN st
        ELSE Let(PackageURL(st, tname), LAMBDA u :
             Let(IF u.where # NoPath THEN u ELSE PackagePath(u.st, tname), LAMBDA w :
             Let([w.st EXCEPT !.fetches =
                     Append(@, [name |-> tname, where |-> w.where, by |-> "package1"])],
                 LAMBDA s1 :
                 IF w.where \in DOMAIN Disk
                 THEN DefinePackageFromSource(s1, tname, Disk[w.where])
                 ELSE Throw(s1, "ENOENT")))))

\* onePkgLoaded with the test count >= 1 in place of count === dependencies.length
OnePkgLoaded_AtFirst(st, j, i, p) ==
    Let([st EXCEPT !.joins[j].depPackages[i] = p,
                   !.joins[j].count = @ + 1,
                   !.joins[j].fired[i] = @ + 1], LAMBDA s1 :
        DefinePackage([s1 EXCEPT !.joins[j].defined = @ + 1], s1.joins[j].pname,
                      s1.joins[j].def, s1.joins[j].depPackages))

\* onePkgLoaded with depPackages[count] = p in place of depPackages[i] = p
OnePkgLoaded_ByCompletion(st, j, i, p) ==
    Let([st EXCEPT !.joins[j].depPackages[st.joins[j].count + 1] = p,
                   !.joins[j].count = @ + 1,
                   !.joins[j].fired[i] = @ + 1], LAMBDA s1 :
        IF s1.joins[j].count = Len(s1.joins[j].deps)
        THEN DefinePackage([s1 EXCEPT !.joins[j].defined = @ + 1], s1.joins[j].pname,
                           s1.joins[j].def, s1.joins[j].depPackages)
        ELSE s1)

\* onePkgLoaded(p) of dependency i of the package3 call j
OnePkgLoaded(st, j, i, p) ==
    Let([st EXCEPT !.joins[j].depPackages[i] = p,
                   !.joins[j].count = @ + 1,
                   !.joins[j].fired[i] = @ + 1], LAMBDA s1 :
        IF s1.joins[j].count = Len(s1.joins[j].deps)
        THEN DefinePackage([s1 EXCEPT !.joins[j].defined = @ + 1], s1.joins[j].pname,
                           s1.joins[j].def, s1.joins[j].depPackages)
        ELSE s1)

\* The sibling configuration with the path and url of pnamecfg as they are.
SiblingConfig_SamePath(pnamecfg, dep) == CfgObj(pnamecfg.path, pnamecfg.url, << >>)

\* The configuration a sibling dependency inherits from pnamecfg.
SiblingConfig(pnamecfg, dep) ==
    CfgObj(IF pnamecfg.path # NoPath THEN RelativePackagePath(pnamecfg.path, dep) ELSE NoPath,
           IF pnamecfg.url # NoPath THEN RelativePackagePath(pnamecfg.url, dep) ELSE NoPath,
           << >>)

\* The first part of the body with tname = trueName(dep) kept for a sibling,
\* dep being the name as it was written.
ResolveDependency_ByParent(st, pname, dep0, pnamecfg) ==
    IF IsSibling(dep0)
    THEN Let(ReplaceLast(pname, dep0), LAMBDA dep :
         Let(TrueName(st, dep0), LAMBDA tname :
         Let(FindConfig(st, tname), LAMBDA f :
             [st |-> IF pnamecfg.kind # "none" /\ f.cfg.kind = "none"
                     THEN ConfigEntry(f.st, tname, SiblingConfig(pnamecfg, dep))
                     ELSE f.st,
              tname |-> tname])))
    ELSE [st |-> st, tname |-> TrueName(st, dep0)]

\* The first part of the body of dependencies.forEach in package3: the name
\* tname of dependency dep0 and the registry once a sibling is configured.
ResolveDependency(st, pname, dep0, pnamecfg) ==
    IF IsSibling(dep0)
    THEN Let(ReplaceLast(pname, dep0), LAMBDA dep :
         Let(TrueName(st, dep), LAMBDA tname :
         Let(FindConfig(st, tname), LAMBDA f :
             [st |-> IF pnamecfg.kind # "none" /\ f.cfg.kind = "none"
                     THEN ConfigEntry(f.st, tname, SiblingConfig(pnamecfg, dep))
                     ELSE f.st,
              tname |-> tname])))
    ELSE [st |-> st, tname |-> TrueName(st, dep0)]

\* The request that ends the body of dependencies.forEach.
RequestDependency(st, j, i, tname) ==
    IF IsWildcard(tname)
    THEN WithPackage(st, ReplaceStar(tname, "__listing__"), Callback("listing", j, i, "", << >>))
    ELSE WithPackage(st, tname, Callback("dep", j, i, "", << >>))

\* The body of dependencies.forEach in package3 for dependency i of call j;
\* the dependencies after i wait until the request of i has returned.
Dependencies(st, j, i, pnamecfg) ==
    Let(ResolveDependency(st, st.joins[j].pname, st.joins[j].deps[i], pnamecfg), LAMBDA r :
    Let([r.st EXCEPT !.joins[j].tnames[i] = r.tname], LAMBDA s2 :
        RequestDependency(
            IF i < Len(st.joins[j].deps)
            THEN Push(s2, Frame("dependencies", << >>, j, i + 1, pnamecfg, << >>))
            ELSE s2,
            j, i, r.tname)))

\* What a package3 call with dependencies keeps in its closure (pname, the
\* arguments, depPackages, count; per wildcard dependency subPkgs,
\* subPkgCount and the listing p), the name each dependency was requested
\* under, and, as history, how often each onePkgLoaded ran and how often the
\* call defined its package.
NewJoin(pname, deps, def) ==
    [pname |-> pname, deps |-> deps, def |-> def,
     tnames |-> [i \in 1..Len(deps) |-> << >>],
     depPackages |-> [i \in 1..Len(deps) |-> Undef],
     count |-> 0,
     fired |-> [i \in 1..Len(deps) |-> 0],
     defined |-> 0,
     subPkgs |-> [i \in 1..Len(deps) |-> Undef],
     subPkgCount |-> [i \in 1..Len(deps) |-> 0],
     listing |-> [i \in 1..Len(deps) |-> Undef]]

\* package3(name, dependencies, definition)
Package3(st, name, dependencies, definition) ==
    IF ~ValidPkgName(name) THEN Throw(st, "Invalid package component name")
    ELSE
    Let(TrueName(st, name), LAMBDA pname :
    Let(FindConfig(LoadConfig(st, pname), pname), LAMBDA f :
        IF Len(dependencies) > 0
        THEN Dependencies(
                 [f.st EXCEPT !.joins = Append(@, NewJoin(pname, dependencies, definition))],
                 Len(f.st.joins) + 1, 1, f.cfg)
        ELSE DefinePackage(f.st, pname, definition, << >>)))

\* defAlias(name, p)
DefAlias(st, name, p) ==
    IF ~ValidPkgName(name) \/ ~ValidPkgName(p)
    THEN Throw(st, "Invalid package component name")
    ELSE Let([st EXCEPT !.aliases = (name :> p) @@ @], LAMBDA s1 :
         IF Truthy(PkgVal(s1, p))
         THEN OnPackageLoaded([s1 EXCEPT !.packages = (name :> PkgVal(s1, p)) @@ @], name)
         ELSE AddOnLoad(s1, p, Callback("alias", 0, 0, "", name)))

\* The for-in loop of package.config over the keys still to be visited (the
\* arguments used here have one key, so the order of the keys plays no part).
RECURSIVE ConfigLoop(_, _, _)
ConfigLoop(st, setupInfo, keys) ==
    IF keys = {} \/ IsThrowing(st) THEN st
    ELSE Let(CHOOSE p \in keys : TRUE, LAMBDA p :
         Let(ConfigEntry(st, p, setupInfo[p]), LAMBDA s1 :
             ConfigLoop(IF setupInfo[p].alias # << >>
                        THEN DefAlias(s1, setupInfo[p].alias, p)
                        ELSE s1,
                        setupInfo, keys \ {p})))

\* package.config(setupInfo)
PackageConfig(st, setupInfo) == ConfigLoop(st, setupInfo, DOMAIN setupInfo)

\* The for-in loop of package.aliases
RECURSIVE AliasLoop(_, _, _)
AliasLoop(st, name2package, keys) ==
    IF keys = {} \/ IsThrowing(st) THEN st
    ELSE Let(CHOOSE a \in keys : TRUE, LAMBDA a :
             AliasLoop(DefAlias(st, a, name2package[a]), name2package, keys \ {a}))

\* package.aliases(name2package)
PackageAliases(st, name2package) == AliasLoop(st, name2package, DOMAIN name2package)

\* package.declare(packagesThatWillBeDefined)
RECURSIVE PackageDeclare(_, _)
PackageDeclare(st, pnames) ==
    IF pnames = << >> THEN st
    ELSE PackageDeclare(
             IF ~Truthy(KnownPackage(st, TrueName(st, Head(pnames))))
             THEN [st EXCEPT !.loading = @ \cup { Head(pnames), TrueName(st, Head(pnames)) },
                             !.declared = @ \cup { TrueName(st, Head(pnames)) }]
             ELSE st,
             Tail(pnames))

\* One statement of a source text or of the embedding program.
Statement(st, s) ==
    CASE s.op = "package1" -> Package1(st, s.name)
      [] s.op = "package2" -> Package2(st, s.name, s.def)
      [] s.op = "package3" -> Package3(st, s.name, s.deps, s.def)
      [] s.op = "config" -> PackageConfig(st, s.cfg)
      [] s.op = "aliases" -> PackageAliases(st, s.cfg)
      [] s.op = "declare" -> PackageDeclare(st, s.deps)
      [] OTHER -> st

\* The statements of a source text, in order: the first one now, the others
\* when it has returned.
RunSource(st, source) ==
    IF source = << >> THEN st
    ELSE Statement(Push(st, Frame("source", Tail(source), 0, 0, NoCfg, << >>)), Head(source))

\* p.forEach of the listing callback: the request of the first name now, the
\* others when it has returned.
SubPackages(st, j, i, names) ==
    IF names = << >> THEN st
    ELSE WithPackage(Push(st, Frame("subPackages", << >>, j, i, NoCfg, Tail(names))),
                     ReplaceStar(st.joins[j].tnames[i], Head(names)),
                     Callback("sub", j, i, Head(names), << >>))

\* The callback given to with_package(listing, ..) by package3.
ListingLoaded(st, j, i, p) ==
    IF ~(p.t = "ref" /\ st.heap[p.v].isArr) THEN Throw(st, "TypeError")
    ELSE Let(Alloc(st, NewObj), LAMBDA s1 :
        SubPackages([s1 EXCEPT !.joins[j].subPkgs[i] = Newest(s1),
                               !.joins[j].subPkgCount[i] = 0,
                               !.joins[j].listing[i] = p],
                    j, i, st.heap[p.v].arr))

\* The sub-package callback with the test subPkgCount === 1 in place of
\* subPkgCount === p.length
SubPkgLoaded_AtFirst(st, j, i, subPkgName, sp) ==
    Let([SetField(st, st.joins[j].subPkgs[i], << subPkgName >>, sp)
            EXCEPT !.joins[j].subPkgCount[i] = @ + 1], LAMBDA s2 :
        IF s2.joins[j].subPkgCount[i] = 1
        THEN OnePkgLoaded(s2, j, i, st.joins[j].subPkgs[i])
        ELSE s2)

\* The callback given to with_package for the listed sub-package subPkgName.
SubPkgLoaded(st, j, i, subPkgName, sp) ==
    Let([SetField(st, st.joins[j].subPkgs[i], << subPkgName >>, sp)
            EXCEPT !.joins[j].subPkgCount[i] = @ + 1], LAMBDA s2 :
        IF s2.joins[j].subPkgCount[i] = Len(st.heap[st.joins[j].listing[i].v].arr)
        THEN OnePkgLoaded(s2, j, i, st.joins[j].subPkgs[i])
        ELSE s2)

\* The continuation defAlias registers for the alias name: it runs with pobj.
AliasLoaded(st, name, pobj) ==
    OnPackageLoaded([st EXCEPT !.packages = (name :> pobj) @@ @], name)

\* The closure the catch clause hands to delay for the sub-directory f of the
\* listing name: with_package(fname, ..).
SubDirRequest(st, name, f) ==
    WithPackage(st, Front(name) \o << f, "__listing__" >>,
                Callback("subdir", 0, 0, "", name))

\* The callback of with_package(fname, ..) in the catch clause.
SubDirLoaded(st, name) ==
    Let([st EXCEPT !.subDirs[name].count = @ + 1], LAMBDA s1 :
        IF s1.subDirs[name].count = s1.subDirs[name].total
        THEN OnPackageLoaded(s1, name)
        ELSE s1)

\* cb(p) for a callback handed to delay.
Invoke(st, cb, p) ==
    CASE cb.k = "dep" -> OnePkgLoaded(st, cb.j, cb.i, p)
      [] cb.k = "listing" -> ListingLoaded(st, cb.j, cb.i, p)
      [] cb.k = "sub" -> SubPkgLoaded(st, cb.j, cb.i, cb.sub, p)
      [] cb.k = "alias" -> AliasLoaded(st, cb.name, p)
      [] cb.k = "request" -> SubDirRequest(st, cb.name, cb.sub)
      [] cb.k = "subdir" -> SubDirLoaded(st, cb.name)
      [] OTHER -> st

\* The exception what leaves the pending calls one by one until a try block.
RECURSIVE Unwind(_, _)
Unwind(st, what) ==
    IF st.stack = << >> THEN [st EXCEPT !.thrown = Append(@, what)]
    ELSE IF Head(st.stack).op = "try"
    THEN Catch([st EXCEPT !.stack = Tail(@)], Head(st.stack).name, Head(st.stack).names)
    ELSE Unwind([st EXCEPT !.stack = Tail(@)], what)

\* The innermost pending call continues.
Resume(st) ==
    Let(Head(st.stack), LAMBDA f :
    Let([st EXCEPT !.stack = Tail(@)], LAMBDA s0 :
        CASE f.op = "source" -> RunSource(s0, f.source)
          [] f.op = "dependencies" -> Dependencies(s0, f.j, f.i, f.cfg)
          [] f.op = "subPackages" -> SubPackages(s0, f.j, f.i, f.names)
          [] f.op = "throw" -> Unwind(s0, f.names[1])
          [] f.op = "try" -> s0))

\* The handler runs until every call it has made has returned.
RECURSIVE Run(_)
Run(st) == IF st.stack = << >> THEN st ELSE Run(Resume(st))

-----------------------------------------------------------------------------
(* The embedding program and the specification *)

\* The calls the embedding program chooses from.
Menu ==
    { Package3Stmt(<< "m" >>, << << "github", "u", "p", "f" >>, << "github", "u", "p", "g" >> >>,
                   Def("fnObject", << >>)),
      Package3Stmt(<< "n" >>, << << "github", "u", "p", "f" >>, << "github", "u", "p", "f" >> >>,
                   Def("fnThis", << >>)),
      Package3Stmt(<< "app" >>, << << "a", "b", "*" >> >>, Def("fnThis", << >>)),
      ConfigStmt(<< "a", "b", "target" >> :> CfgObj(<< "dir", "target.js" >>, NoPath, << >>)),
      ConfigStmt(<< "a", "b", "sibling" >> :> CfgObj(<< "lib", "sibling.js" >>, NoPath, << >>)),
      Package3Stmt(<< "a", "b", "target" >>, << << "", "sibling" >> >>, Def("fnObject", << >>)),
      Package3Stmt(<< "k" >>, << << "a", "b", "target" >> >>, Def("fnThis", << >>)),
      Package2Stmt(<< "a", "b", "c" >>, Def("object", << >>)),
      Package2Stmt(<< "a", "b" >>, Def("fnThis", << >>)),
      Package2Stmt(<< "a", "b", "d" >>, Def("fnObject", << >>)),
      Package2Stmt(<< "z" >>, Def("fnZero", << >>)),
      Package3Stmt(<< "q" >>, << << "z" >> >>, Def("fnThis", << >>)) }

NoStmt == Stmt("none", << >>, << >>, NoDef, << >>)

NoCallback == Callback("none", 0, 0, "", << >>)

\* What the latest step did.
Did(act, stmt, cb, name) == [act |-> act, stmt |-> stmt, cb |-> cb, name |-> name]

\* The offline scanner before main() runs: package.__configurations__ = {}.
\* log is a history of the entries package.config has examined.
ScanInit ==
    [started |-> FALSE, slicedArgs |-> << >>, i |-> 0, PATH |-> "",
     configurations |-> << >>, aborted |-> FALSE,
     out |-> [written |-> FALSE, map |-> << >>], log |-> << >>]

\* A configuration {external: {url: .., dependsOn: .., ..}}; the names the
\* script exports and expects play no part in what is loaded.
CfgExternal(urls, dependsOn) ==
    [kind |-> "object", path |-> NoPath, url |-> NoPath, alias |-> << >>, fn |-> "",
     external |-> [url |-> urls, dependsOn |-> dependsOn]]

\* The bundler before main() runs: '#global' comes pre-installed and config
\* holds the github function and the common external packages.  out is
\* what has been written to process.stdout; fetches and errors are histories
\* of the loads begun and of the loads that failed.
BuildInit ==
    [started |-> FALSE,
     packages |-> (<< "#global" >> :> << "package", "__global__" >>),
     defined |-> << >>, loading |-> {}, onloads |-> << >>,
     config |-> (<< "github", "*" >> :> CfgFn("githubBuild"))
         @@ (<< "jQuery" >> :>
                CfgExternal(<< << "http:", "", "code.jquery.com", "jquery-1.7.2.js" >> >>, << >>))
         @@ (<< "Underscore" >> :>
                CfgExternal(<< << "https:", "", "raw.github.com", "documentcloud",
                                  "underscore", "master", "underscore.js" >> >>, << >>))
         @@ (<< "Backbone" >> :>
                CfgExternal(<< << "https:", "", "raw.github.com", "documentcloud",
                                  "backbone", "master", "backbone.js" >> >>,
                            << << "Underscore" >> >>))
         @@ (<< "Prototype" >> :>
                CfgExternal(<< << "https:", "", "ajax.googleapis.com", "ajax", "libs",
                                  "prototype", "1.7.0.0", "prototype.js" >> >>, << >>))
         @@ (<< "MooTools" >> :>
                CfgExternal(<< << "http:", "", "mootools.net", "download", "get",
                                  "mootools-core-1.4.5-full-nocompat.js" >> >>, << >>)),
     aliases |-> << >>, loadOrder |-> << >>, loadCtr |-> 1,
     parent |-> << "undefined" >>, CONFIG |-> NoCONFIG,
     out |-> << >>, tasks |-> << >>, inflight |-> << >>, joins |-> << >>,
     fetches |-> << >>, errors |-> << >>, cfgcalls |-> << >>, pended |-> {},
     stack |-> << >>]

Init ==
    /\ scanner = ScanInit
    /\ bundler = BuildInit
    /\ packages = << >>
    /\ heap = << >>
    /\ loading = {}
    /\ onloads = << >>
    /\ config = (<< "github", "*" >> :> CfgFn("github"))
    /\ aliases = << >>
    /\ loadOrder = << >>
    /\ loadCtr = 1
    /\ parent = << "undefined" >>
    /\ CONFIG = NoCONFIG
    /\ tasks = << >>
    /\ inflight = << >>
    /\ joins = << >>
    /\ fetches = << >>
    /\ defcalls = << >>
    /\ cfgcalls = << >>
    /\ errors = << >>
    /\ completed = << >>
    /\ subDirs = << >>
    /\ thrown = << >>
    /\ declared = {}
    /\ pended = {}
    /\ found = << >>
    /\ ncalls = 0
    /\ last = Did("init", NoStmt, NoCallback, << >>)

\* The embedding program calls package(..) or package.config(..).
Call(s) ==
    /\ ncalls < MaxCalls
    /\ Becomes(Run(Statement(Cur, s)))
    /\ found' = found
    /\ ncalls' = ncalls + 1
    /\ last' = Did("call", s, NoCallback, s.name)

\* The scheduler runs the oldest closure handed to delay.
RunTask ==
    /\ tasks # << >>
    /\ Becomes(Run(Invoke([Cur EXCEPT !.tasks = Tail(@)], Head(tasks).cb, Head(tasks).v)))
    /\ found' = found
    /\ ncalls' = ncalls
    /\ last' = Did("task", NoStmt, Head(tasks).cb, << >>)

Remove(s, k) == SubSeq(s, 1, k - 1) \o SubSeq(s, k + 1, Len(s))

\* The 'end' event of an http request of loadPackageFromURL.
FetchEnd(k) ==
    /\ k \in DOMAIN inflight
    /\ inflight[k].url \in DOMAIN Net
    /\ Becomes(Run(DefinePackageFromSource(
                  [Cur EXCEPT !.inflight = Remove(@, k),
                              !.CONFIG = [set |-> TRUE, path |-> NoPath, url |-> inflight[k].url]],
                  inflight[k].name, Net[inflight[k].url])))
    /\ found' = found
    /\ ncalls' = ncalls
    /\ last' = Did("end", NoStmt, NoCallback, inflight[k].name)

\* The 'error' event of an http request of loadPackageFromURL.
FetchError(k) ==
    /\ k \in DOMAIN inflight
    /\ Becomes([Cur EXCEPT !.inflight = Remove(@, k), !.errors = Append(@, inflight[k].name)])
    /\ found' = found
    /\ ncalls' = ncalls
    /\ last' = Did("error", NoStmt, NoCallback, inflight[k].name)

Next ==
    \/ \E s \in Menu : Call(s)
    \/ RunTask
    \/ \E k \in DOMAIN inflight : FetchEnd(k)
    \/ \E k \in DOMAIN inflight : FetchError(k)

Spec == Init /\ [][Next]_vars

-----------------------------------------------------------------------------
(* Declarations, aliases, pseudo packages, listings of directories *)

\* The calls the embedding program chooses from in the second scenario.
MenuB ==
    { Package3Stmt(<< "w" >>, << << "c", "*" >> >>, Def("fnThis", << >>)),
      DeclareStmt(<< << "d" >> >>),
      Package3Stmt(<< "u" >>, << << "d" >> >>, Def("fnThis", << >>)),
      Package2Stmt(<< "d" >>, Def("object", << >>)),
      Package2Stmt(<< "d" >>, Def("fnZero", << >>)),
      AliasesStmt(<< "D" >> :> << "d" >>),
      AliasesStmt(<< "G" >> :> << "D" >>),
      Package3Stmt(<< "v" >>, << << "D" >> >>, Def("fnThis", << >>)),
      ConfigStmt(<< "d" >> :> CfgObj(<< "lib", "d.js" >>, NoPath, << "E" >>)),
      ConfigStmt(<< "d" >> :> CfgObj(NoPath, NoPath, << "F" >>)),
      ConfigStmt(<< "d" >> :>
          CfgExternal(<< << "https:", "", "raw.github.com", "documentcloud",
                            "backbone", "master", "backbone.js" >> >>,
                      << << "Underscore" >> >>)),
      Package3Stmt(<< "h" >>, << << "#global" >>, << "#host" >> >>, Def("fnThis", << >>)),
      Package2Stmt(<< "#host" >>, Def("object", << >>)),
      Package2Stmt(<< "a", "constructor" >>, Def("object", << >>)),
      Package3Stmt(<< "toString" >>, << << "d" >> >>, Def("fnThis", << >>)),
      Package1Stmt(<< "x", "prototype" >>) }

NextB ==
    \/ \E s \in MenuB : Call(s)
    \/ RunTask

SpecB == Init /\ [][NextB]_vars

-----------------------------------------------------------------------------
(* Relative names, definitions waiting for their dependencies *)

\* The calls the embedding program chooses from in the third scenario.
MenuC ==
    { Package2Stmt(<< "u", "v" >>, Def("object", << >>)),
      Package3Stmt(<< "p", "q" >>, << << "", "x", "y" >> >>, Def("fnThis", << >>)),
      Package3Stmt(<< "p", "r" >>, << << "", "x" >> >>, Def("fnThis", << >>)),
      Package3Stmt(<< "main" >>, << << "", "worker" >> >>, Def("fnThis", << >>)),
      Package3Stmt(<< "t" >>, << << "e", "*" >> >>, Def("fnThis", << >>)),
      Package3Stmt(<< "m" >>, << << "github", "u", "p", "f" >> >>, Def("fnObject", << >>)),
      Package3Stmt(<< "r" >>, << << "m" >> >>, Def("fnThis", << >>)),
      Package1Stmt(<< "github", "u", "p", "f" >>),
      Package1Stmt(<< "a", "b", "y" >>),
      Package3Stmt(<< "app" >>, << << "a", "b", "*" >> >>, Def("fnThis", << >>)) }

NextC ==
    \/ \E s \in MenuC : Call(s)
    \/ RunTask
    \/ \E k \in DOMAIN inflight : FetchEnd(k)
    \/ \E k \in DOMAIN inflight : FetchError(k)

SpecC == Init /\ [][NextC]_vars

-----------------------------------------------------------------------------
(* Definitions that throw, definitions of a name that is already defined *)

\* The calls the embedding program chooses from in the fourth scenario.
MenuD ==
    { Package2Stmt(<< "bad" >>, Def("fnThrow", << >>)),
      Package3Stmt(<< "h" >>, << << "bad" >> >>, Def("fnThis", << >>)),
      Package3Stmt(<< "j" >>, << << "github", "u", "p", "f" >> >>, Def("fnThrow", << >>)),
      Package3Stmt(<< "i" >>, << << "j" >> >>, Def("fnThis", << >>)),
      Package2Stmt(<< "p" >>, Def("object", << >>)),
      Package2Stmt(<< "p" >>, Def("fnThis", << >>)),
      Package2Stmt(<< "p" >>, Def("fnThrow", << >>)),
      Package2Stmt(<< "p", "q" >>, Def("fnThis", << >>)),
      Package2Stmt(<< "z" >>, Def("fnZero", << >>)),
      Package2Stmt(<< "z" >>, Def("fnThis", << >>)),
      Package3Stmt(<< "w" >>, << << "p" >> >>, Def("fnThis", << >>)) }

NextD ==
    \/ \E s \in MenuD : Call(s)
    \/ RunTask
    \/ \E k \in DOMAIN inflight : FetchEnd(k)
    \/ \E k \in DOMAIN inflight : FetchError(k)

SpecD == Init /\ [][NextD]_vars

-----------------------------------------------------------------------------
(* Loads that all succeed, under a fair scheduler *)

\* The calls the embedding program chooses from in the fifth scenario:
\* every dependency is a plain name whose file or url exists and defines it.
MenuL ==
    { Package3Stmt(<< "m" >>, << << "github", "u", "p", "f" >>, << "github", "u", "p", "g" >> >>,
                   Def("fnObject", << >>)),
      Package3Stmt(<< "n" >>, << << "github", "u", "p", "f" >>, << "github", "u", "p", "f" >> >>,
                   Def("fnThis", << >>)),
      Package3Stmt(<< "s" >>, << << "a", "b", "x" >>, << "a", "b", "y" >> >>,
                   Def("fnThis", << >>)),
      Package2Stmt(<< "github", "u", "p", "g" >>, Def("object", << >>)) }

NextL ==
    \/ \E s \in MenuL : Call(s)
    \/ RunTask
    \/ \E k \in DOMAIN inflight : FetchEnd(k)

\* A RunTask step, told by its guard and by the record it leaves in last: it
\* can be taken exactly when a closure is queued.
TurnTaken ==
    /\ tasks # << >>
    /\ last' = Did("task", NoStmt, Head(tasks).cb, << >>)

\* A FetchEnd step, told in the same way: it can be taken exactly when a
\* request is in flight whose url answers.
ResponseEnded ==
    \E k \in DOMAIN inflight :
        /\ inflight[k].url \in DOMAIN Net
        /\ last' = Did("end", NoStmt, NoCallback, inflight[k].name)

\* process.nextTick runs every closure it was handed, and every http request
\* that gets a response sees its 'end' event.
SpecL ==
    /\ Init /\ [][NextL]_vars
    /\ WF_last(TurnTaken)
    /\ WF_last(ResponseEnded)

-----------------------------------------------------------------------------
(* The configuration lookup on its own *)

\* The names the embedding program looks up.
Names ==
    { << "github", "u" >>, << "github", "u", "p" >>, << "github", "u", "p", "f" >>,
      << "com", "anthill", "x", "y" >>, << "a", "b", "c" >> }

\* The arguments of the package.config calls of the embedding program.
Setups ==
    { << "com", "anthill", "*" >> :> CfgFn("anthill"),
      << "a", "b", "c" >> :> CfgObj(<< "lib", "c.js" >>, NoPath, << >>),
      << "a", "b", "*" >> :> CfgObj(<< "lib", "b.js" >>, NoPath, << >>) }

\* The embedding program looks a name up: findConfig(name).
Find(name) ==
    /\ ncalls < MaxFinds
    /\ Becomes(FindConfig(Cur, name).st)
    /\ found' = Append(found, [name |-> name, cfg |-> FindConfig(Cur, name).cfg])
    /\ ncalls' = ncalls + 1
    /\ last' = Did("find", NoStmt, NoCallback, name)

\* The embedding program calls package.config(setupInfo).
Configure(setupInfo) ==
    /\ ncalls < MaxFinds
    /\ Becomes(PackageConfig(Cur, setupInfo))
    /\ found' = found
    /\ ncalls' = ncalls + 1
    /\ last' = Did("config", ConfigStmt(setupInfo), NoCallback, << >>)

NextFind ==
    \/ \E name \in Names : Find(name)
    \/ \E setupInfo \in Setups : Configure(setupInfo)

SpecFind == Init /\ [][NextFind]_vars

-----------------------------------------------------------------------------
(* The offline scanner: src/configure *)

\* A configuration that is an object literal: its keys in the order written,
\* each with its string value.
ScanObj(pairs) == [kind |-> "object", pairs |-> pairs, fn |-> ""]

\* A configuration that is a function.
ScanFn(fn) == [kind |-> "function", pairs |-> << >>, fn |-> fn]

\* cfg.path as a condition: undefined for a function and for an object
\* without the key, false for the empty string.
HasPath(cfg) ==
    \E n \in DOMAIN cfg.pairs : cfg.pairs[n][1] = "path" /\ cfg.pairs[n][2] # ""

\* JSON.stringify(cfg): undefined for a function; for an object the text that
\* lists the keys in the order they were written.
JSONStringify(cfg) ==
    IF cfg.kind = "function" THEN [defined |-> FALSE, text |-> << >>]
    ELSE [defined |-> TRUE, text |-> cfg.pairs]

\* The files the scanner can be given, each with the statements it evaluates.
ScanFiles ==
    "x.js" :> << [op |-> "package", name |-> "x"] >>
    @@ "u1.js" :> << [op |-> "config", cfg |-> << << "x", ScanObj(<< << "url", "u1" >> >>) >> >>] >>
    @@ "u2.js" :> << [op |-> "config", cfg |-> << << "x", ScanObj(<< << "url", "u2" >> >>) >> >>] >>
    @@ "p.js" :> << [op |-> "config", cfg |-> << << "x", ScanObj(<< << "path", "lib/x.js" >> >>) >> >>] >>
    @@ "f1.js" :> << [op |-> "config", cfg |-> << << "x", ScanFn("fnA") >> >>] >>
    @@ "f2.js" :> << [op |-> "config", cfg |-> << << "x", ScanFn("fnB") >> >>] >>
    @@ "ua.js" :> << [op |-> "config",
                      cfg |-> << << "x", ScanObj(<< << "url", "u1" >>, << "alias", "X" >> >>) >> >>] >>
    @@ "au.js" :> << [op |-> "config",
                      cfg |-> << << "x", ScanObj(<< << "alias", "X" >>, << "url", "u1" >> >>) >> >>] >>

\* The command lines: one to MaxArgs files, none of them the registry flag.
ArgLines == UNION { [1..n -> DOMAIN ScanFiles] : n \in 1..MaxArgs }

\* package(name, ..) of the scanner.
ScanPackage(sc, name) ==
    [sc EXCEPT !.configurations = (name :> ScanObj(<< << "path", sc.PATH >> >>)) @@ @]

\* var conflict = .. in package.config of the scanner.
Conflict(sc, k, new) ==
    /\ k \in DOMAIN sc.configurations
    /\ ~(HasPath(new) /\ ~HasPath(sc.configurations[k]))
    /\ JSONStringify(sc.configurations[k]) # JSONStringify(new)

\* What package.config saw and decided for one key.
Examined(sc, k, new) ==
    [k |-> k, had |-> k \in DOMAIN sc.configurations,
     old |-> IF k \in DOMAIN sc.configurations THEN sc.configurations[k] ELSE new,
     new |-> new, conflict |-> Conflict(sc, k, new)]

\* package.config of the scanner: Object.keys(cfg).forEach(..); the throw
\* of "Aborted" ends the loop and, uncaught, the program.
RECURSIVE ScanConfig(_, _)
ScanConfig(sc, cfg) ==
    IF cfg = << >> \/ sc.aborted THEN sc
    ELSE Let(Head(cfg)[1], LAMBDA k : Let(Head(cfg)[2], LAMBDA new :
         ScanConfig(
             IF Conflict(sc, k, new)
             THEN [sc EXCEPT !.log = Append(@, Examined(sc, k, new)), !.aborted = TRUE]
             ELSE [sc EXCEPT !.log = Append(@, Examined(sc, k, new)),
                             !.configurations = (k :> new) @@ @],
             Tail(cfg))))

\* eval('(function (package) {' + source + '})')(package)
RECURSIVE EvalFile(_, _)
EvalFile(sc, stmts) ==
    IF stmts = << >> \/ sc.aborted THEN sc
    ELSE EvalFile(IF Head(stmts).op = "package"
                  THEN ScanPackage(sc, Head(stmts).name)
                  ELSE ScanConfig(sc, Head(stmts).cfg),
                  Tail(stmts))

\* iter() of main: evaluate the next file, or write the declarations out.
IterBody(sc) ==
    IF sc.i < Len(sc.slicedArgs)
    THEN EvalFile([sc EXCEPT !.i = @ + 1, !.PATH = sc.slicedArgs[sc.i + 1]],
                  ScanFiles[sc.slicedArgs[sc.i + 1]])
    ELSE [sc EXCEPT !.out = [written |-> TRUE, map |-> sc.configurations]]

\* main() for the command line argv: the first iter() runs at once.
Main(argv) ==
    /\ ~scanner.started
    /\ scanner' = IterBody([scanner EXCEPT !.started = TRUE, !.slicedArgs = argv])
    /\ UNCHANGED << runtime, bundler >>

\* process.nextTick(iter)
Iter ==
    /\ scanner.started
    /\ ~scanner.aborted
    /\ ~scanner.out.written
    /\ scanner' = IterBody(scanner)
    /\ UNCHANGED << runtime, bundler >>

NextScan ==
    \/ \E argv \in ArgLines : Main(argv)
    \/ Iter

SpecScan == Init /\ [][NextScan]_vars

-----------------------------------------------------------------------------
(* The bundler: build (src/unnamed/part_001) *)

\* findConfig, packagePath, packageURL, trueName, loadConfig, addOnLoad, delay
\* and definePackageFromSource of the bundler read as those of package.js and
\* are used for both.  The input files below use valid names without
\* hyphens and no wildcard dependencies, so validPkgName returns its
\* argument, replaceAll changes nothing and no listing is requested.

\* fullname(name)
Fullname(name) == << "package", "_" >> \o name

\* packages[name] of the bundler, a string; << >> for '' and for undefined.
BuildPkgVal(b, name) == IF name \in DOMAIN b.packages THEN b.packages[name] ELSE << >>

\* cfg && cfg.external
HasExternal(cfg) == cfg.kind # "none" /\ "external" \in DOMAIN cfg

\* The files the bundler reads, by path: what each source text executes.
BuildDisk ==
    (<< "main.js" >> :>
        << Package2Stmt(<< "a", "b" >>, Def("fnObject", << >>)),
           Package3Stmt(<< "main" >>, << << "a" >> >>, Def("fnObject", << >>)) >>)
    @@ (<< "app.js" >> :>
        << Package3Stmt(<< "app" >>, << << "a" >>, << "jQuery" >> >>, Def("fnObject", << >>)) >>)
    @@ (<< "lib.js" >> :>
        << Package2Stmt(<< "a", "b" >>, Def("fnObject", << >>)) >>)
    @@ (<< "cfg.js" >> :>
        << ConfigStmt(<< "c" >> :> CfgObj(NoPath, << "http:", "", "h", "c.js" >>, << >>)) >>)
    @@ (<< "a.js" >> :>
        << Package3Stmt(<< "a" >>, << << "c" >> >>, Def("fnObject", << >>)) >>)
    @@ (<< "c.js" >> :>
        << Package2Stmt(<< "c" >>, Def("fnObject", << >>)) >>)

\* The files that are given on the command line.
BuildInputs == { << "main.js" >>, << "app.js" >>, << "lib.js" >>, << "cfg.js" >> }

\* The documents of the network the bundler fetches, by url; an external
\* script executes no statement of its own.
BuildNet ==
    (<< "http:", "", "h", "c.js" >> :>
        << Package2Stmt(<< "c" >>, Def("fnObject", << >>)) >>)
    @@ (<< "http:", "", "code.jquery.com", "jquery-1.7.2.js" >> :> << >>)

\* The command lines: one to MaxBuildArgs input files.
BuildArgLines == UNION { [1..n -> BuildInputs] : n \in 1..MaxBuildArgs }

\* declPkg(name): the loop over the parts from part i on
RECURSIVE DeclParts(_, _, _)
DeclParts(b, name, i) ==
    IF i > Len(name) THEN b
    ELSE DeclParts(
             IF BuildPkgVal(b, SubSeq(name, 1, i)) = << >>
             THEN [b EXCEPT !.out = Append(@, [k |-> "decl", name |-> SubSeq(name, 1, i)]),
                            !.packages = (SubSeq(name, 1, i) :> Fullname(SubSeq(name, 1, i))) @@ @]
             ELSE b,
             name, i + 1)

\* declPkg(name)
DeclPkg(b, name) ==
    Let(DeclParts(b, name, 1), LAMBDA b1 :
        [b1 EXCEPT !.packages = (name :> Fullname(name)) @@ @])

\* defWithFallback(pname, pkg, definition, dependencies) of the bundler: the
\* definition is written out, applied to the names of the dependencies.
BuildDefWithFallback(b, pname, definition, dependencies) ==
    Let(DeclPkg(b, pname), LAMBDA b1 :
        [b1 EXCEPT !.out = Append(@, [k |-> "def", name |-> pname, args |-> dependencies])])

\* setPackagePatterns(components, p) of the bundler
BuildSetPackagePatterns(b, components) ==
    [b EXCEPT !.packages =
        [key \in { Flatten(SubSeq(components, 1, i)) \o << "*" >> : i \in 0..(Len(components) - 1) }
            |-> Front(key)] @@ @]

\* onPackageLoaded(name) of the bundler
BuildOnPackageLoaded(b, name) ==
    Let(BuildPkgVal(b, name), LAMBDA p :
    Let(IF name \in DOMAIN b.onloads THEN b.onloads[name] ELSE << >>, LAMBDA callbacks :
    Let(BuildSetPackagePatterns(b, PatternComponents(b, name)), LAMBDA b1 :
    Let([b1 EXCEPT !.loading = @ \ {name},
                   !.loadOrder = (name :> b1.loadCtr) @@ @,
                   !.loadCtr = @ + 1], LAMBDA b2 :
        IF Len(callbacks) > 0
        THEN DelayAll([b2 EXCEPT !.onloads = [n \in DOMAIN @ \ {name} |-> @[n]]],
                      callbacks, p)
        ELSE b2))))

\* definePackage(name, definition, dependencies) of the bundler
BuildDefinePackage(b, name, definition, dependencies) ==
    IF name \in DOMAIN b.defined THEN b
    ELSE Let(DeclPkg([b EXCEPT !.parent = ParentOf(name)], name), LAMBDA b1 :
         Let(BuildDefWithFallback(b1, name, definition, dependencies), LAMBDA b2 :
         Let([b2 EXCEPT !.packages = (name :> Fullname(name)) @@ @], LAMBDA b3 :
         Let(BuildOnPackageLoaded(b3, name), LAMBDA b4 :
             [b4 EXCEPT !.defined = (name :> Fullname(name)) @@ @]))))

\* fetch_url_async(url, ..) for an http or https url: the request is sent.
FetchUrlAsync(b, name, url, by, i) ==
    [b EXCEPT !.inflight = Append(@, [name |-> name, url |-> url, by |-> by, i |-> i]),
              !.fetches = Append(@, [name |-> name, where |-> url, by |-> by])]

\* loadPackageFromURL(name, url) of the bundler
BuildLoadPackageFromURL(b, name, url) == FetchUrlAsync(b, name, url, "url", 0)

\* loadPackageFromDisk(name, where) of the bundler, for a name that is not a
\* listing: the catch clause logs.
BuildLoadPackageFromDisk(b, name, where) ==
    Let([b EXCEPT !.fetches = Append(@, [name |-> name, where |-> where, by |-> "disk"])],
        LAMBDA b1 :
        IF where \in DOMAIN BuildDisk
        THEN DefinePackageFromSource(
                 [b1 EXCEPT !.CONFIG = [set |-> TRUE, path |-> where, url |-> NoPath]],
                 name, BuildDisk[where])
        ELSE [b1 EXCEPT !.errors = Append(@, name)])

\* loadExternalModuleFromURL(pkgname, urls, ..): packagefn.fetch(urls[i++], ..)
LoadExternalModuleFromURL(b, pkgname, external) ==
    FetchUrlAsync(b, pkgname, external.url[1], "external", 1)

\* with_package_in_fs(name, callback) of the bundler
BuildWithPackage(b, name, callback) ==
    Let(BuildPkgVal(b, name), LAMBDA p :
        IF p # << >> THEN Delay(b, callback, p)
        ELSE IF name \in b.loading THEN AddOnLoad(b, name, callback)
        ELSE Let(AddOnLoad([b EXCEPT !.loading = @ \cup {name}], name, callback), LAMBDA b1 :
             IF PseudoPackage(name) THEN b1
             ELSE Let(FindConfig(b1, name), LAMBDA f :
                  IF HasExternal(f.cfg)
                  THEN LoadExternalModuleFromURL(f.st, name, f.cfg.external)
                  ELSE Let(PackageURL(f.st, name), LAMBDA u :
                       IF u.where # NoPath THEN BuildLoadPackageFromURL(u.st, name, u.where)
                       ELSE Let(PackagePath(u.st, name), LAMBDA w :
                            BuildLoadPackageFromDisk(w.st, name, w.where))))))

\* onload(p) of dependency i of the package3 call j of the bundler
BuildOnload(b, j, i, p) ==
    Let([b EXCEPT !.joins[j].depPackages[i] = p,
                  !.joins[j].count = @ + 1,
                  !.joins[j].fired[i] = @ + 1], LAMBDA b1 :
        IF b1.joins[j].count = Len(b1.joins[j].deps)
        THEN BuildDefinePackage([b1 EXCEPT !.joins[j].defined = @ + 1], b1.joins[j].pname,
                                b1.joins[j].def, b1.joins[j].depPackages)
        ELSE b1)

\* The body of dependencies.forEach in package3 of the bundler for
\* dependency i of call j: loadDependency(pname, pnamecfg, dep, onload).
BuildDependencies(b, j, i, pnamecfg) ==
    Let(ResolveDependency(b, b.joins[j].pname, b.joins[j].deps[i], pnamecfg), LAMBDA r :
    Let([r.st EXCEPT !.joins[j].tnames[i] = r.tname], LAMBDA b2 :
        BuildWithPackage(
            IF i < Len(b.joins[j].deps)
            THEN Push(b2, Frame("dependencies", << >>, j, i + 1, pnamecfg, << >>))
            ELSE b2,
            r.tname, Callback("dep", j, i, "", << >>))))

\* package3(name, dependencies, definition) of the bundler
BuildPackage3(b, name, dependencies, definition) ==
    Let(TrueName(b, name), LAMBDA pname :
    Let(FindConfig(LoadConfig(b, pname), pname), LAMBDA f :
        IF Len(dependencies) > 0
        THEN BuildDependencies(
                 [f.st EXCEPT !.joins = Append(@, NewJoin(pname, dependencies, definition))],
                 Len(f.st.joins) + 1, 1, f.cfg)
        ELSE BuildDefinePackage(f.st, pname, definition, << >>)))

\* package2(name, definition) of the bundler
BuildPackage2(b, name, definition) ==
    Let(TrueName(b, name), LAMBDA tname :
        BuildDefinePackage(LoadConfig(b, tname), tname, definition, << >>))

\* defAlias(name, p) of the bundler
BuildDefAlias(b, name, p) ==
    Let([b EXCEPT !.aliases = (name :> p) @@ @], LAMBDA b1 :
        IF BuildPkgVal(b1, p) # << >>
        THEN BuildOnPackageLoaded([b1 EXCEPT !.packages = (name :> BuildPkgVal(b1, p)) @@ @], name)
        ELSE AddOnLoad(b1, p, Callback("alias", 0, 0, "", name)))

\* packagefn.config(setupInfo): the for-in loop over the keys still to be
\* visited.
RECURSIVE BuildConfig(_, _, _)
BuildConfig(b, setupInfo, keys) ==
    IF keys = {} THEN b
    ELSE Let(CHOOSE p \in keys : TRUE, LAMBDA p :
         Let(ConfigEntry(b, p, setupInfo[p]), LAMBDA b1 :
             BuildConfig(IF setupInfo[p].alias # << >>
                         THEN BuildDefAlias(b1, setupInfo[p].alias, p)
                         ELSE b1,
                         setupInfo, keys \ {p})))

\* One statement of a source text that the bundler evaluates.
BuildStatement(b, s) ==
    CASE s.op = "package2" -> BuildPackage2(b, s.name, s.def)
      [] s.op = "package3" -> BuildPackage3(b, s.name, s.deps, s.def)
      [] s.op = "config" -> BuildConfig(b, s.cfg, DOMAIN s.cfg)
      [] OTHER -> b

\* The statements of a source text, in order.
BuildRunSource(b, source) ==
    IF source = << >> THEN b
    ELSE BuildStatement(Push(b, Frame("source", Tail(source), 0, 0, NoCfg, << >>)), Head(source))

\* process.argv.forEach of main from the file args[1] on.
BuildArgs(b, args) ==
    IF args = << >> THEN b
    ELSE BuildRunSource(
             Push([b EXCEPT !.CONFIG = [set |-> TRUE, path |-> Head(args), url |-> NoPath]],
                  Frame("args", << >>, 0, 0, NoCfg, Tail(args))),
             BuildDisk[Head(args)])

\* The innermost pending call of the bundler continues.
BuildResume(b) ==
    Let(Head(b.stack), LAMBDA f :
    Let([b EXCEPT !.stack = Tail(@)], LAMBDA b0 :
        CASE f.op = "source" -> BuildRunSource(b0, f.source)
          [] f.op = "dependencies" -> BuildDependencies(b0, f.j, f.i, f.cfg)
          [] f.op = "args" -> BuildArgs(b0, f.names)))

RECURSIVE BuildRun(_)
BuildRun(b) == IF b.stack = << >> THEN b ELSE BuildRun(BuildResume(b))

\* A closure handed to delay by the bundler is called.
BuildInvoke(b, cb, p) ==
    IF cb.k = "dep" THEN BuildOnload(b, cb.j, cb.i, p)
    ELSE BuildOnPackageLoaded([b EXCEPT !.packages = (cb.name :> p) @@ @], cb.name)

\* The callback of fetch_url_async for the request r.
FetchCallback(b, r) ==
    IF r.by = "url"
    THEN DefinePackageFromSource(b, r.name, BuildNet[r.url])
    ELSE Let(b.config[r.name].external, LAMBDA external :
         IF r.i < Len(external.url)
         THEN FetchUrlAsync([b EXCEPT !.out = Append(@, [k |-> "raw", name |-> r.name, args |-> << >>])],
                            r.name, external.url[r.i + 1], "external", r.i + 1)
         ELSE BuildPackage3(b, r.name, << << "#global" >> >> \o external.dependsOn,
                            Def("fnObject", << >>)))

\* main() for the command line argv: the prelude, then every file in turn.
BuildMain(argv) ==
    /\ ~bundler.started
    /\ bundler' = BuildRun(BuildArgs(
                      [bundler EXCEPT !.started = TRUE,
                                      !.out = << [k |-> "prelude", name |-> << >>, args |-> << >>] >>],
                      argv))
    /\ UNCHANGED << runtime, scanner >>

\* The scheduler runs the oldest closure the bundler handed to delay.
BuildRunTask ==
    /\ bundler.tasks # << >>
    /\ bundler' = BuildRun(BuildInvoke([bundler EXCEPT !.tasks = Tail(@)],
                                       Head(bundler.tasks).cb, Head(bundler.tasks).v))
    /\ UNCHANGED << runtime, scanner >>

\* The 'end' event of a request of fetch_url_async.
BuildFetchEnd(k) ==
    /\ k \in DOMAIN bundler.inflight
    /\ bundler.inflight[k].url \in DOMAIN BuildNet
    /\ bundler' = BuildRun(FetchCallback([bundler EXCEPT !.inflight = Remove(@, k)],
                                         bundler.inflight[k]))
    /\ UNCHANGED << runtime, scanner >>

\* The 'error' event of a request of fetch_url_async.
BuildFetchError(k) ==
    /\ k \in DOMAIN bundler.inflight
    /\ bundler' = [bundler EXCEPT !.inflight = Remove(@, k),
                                  !.errors = Append(@, bundler.inflight[k].name)]
    /\ UNCHANGED << runtime, scanner >>

NextBuild ==
    \/ \E argv \in BuildArgLines : BuildMain(argv)
    \/ BuildRunTask
    \/ \E k \in DOMAIN bundler.inflight : BuildFetchEnd(k)
    \/ \E k \in DOMAIN bundler.inflight : BuildFetchError(k)

SpecBuild == Init /\ [][NextBuild]_vars

-----------------------------------------------------------------------------
(* What the claims speak about *)

\* The values the completions of name have delivered.
ResolvedValues(name) ==
    { completed[k].val : k \in { k \in DOMAIN completed : completed[k].name = name } }

\* The name has been completed (onPackageLoaded has run for it).
Resolved(name) == \E k \in DOMAIN completed : completed[k].name = name

\* The dependencies of a package3 call whose onePkgLoaded has run.
Fired(jn) == { i \in DOMAIN jn.deps : jn.fired[i] > 0 }

\* The invocations of a definition function for name with n arguments.
DefCallsOf(name, n) ==
    { k \in DOMAIN defcalls : defcalls[k].name = name /\ Len(defcalls[k].args) = n }

\* The package3 calls with n dependencies for name that have defined it.
DefinedJoins(name, n) ==
    { j \in DOMAIN joins : joins[j].pname = name /\ Len(joins[j].deps) = n
                              /\ joins[j].defined > 0 }

\* The fetches initiated for name, by their place in the history fs.
FetchesOf(fs, name) == { k \in DOMAIN fs : fs[k].name = name }

\* The closures a step hands to delay().
NewTasks == SubSeq(tasks', Len(tasks) + (IF last'.act = "task" THEN 0 ELSE 1), Len(tasks'))

\* The callback of dependency i of call j is registered, scheduled or has run.
Requested(j, i, tname) ==
    \/ joins[j].fired[i] > 0
    \/ \E k \in DOMAIN tasks : tasks[k].cb = Callback("dep", j, i, "", << >>)
    \/ /\ tname \in DOMAIN onloads
       /\ \E c \in DOMAIN onloads[tname] : onloads[tname][c] = Callback("dep", j, i, "", << >>)

-----------------------------------------------------------------------------
(* C1 *)

\* C1: a request with_package(N, cb) for a name N that is loaded at the time
\* of the request, or is loaded later, invokes cb exactly once, on a later
\* scheduler turn: when the scheduler has nothing left to run, the callback
\* of every dependency whose name has been loaded has run exactly once.
C1_CallbackExactlyOnce ==
    tasks = << >> =>
        \A j \in DOMAIN joins : \A i \in DOMAIN joins[j].deps :
            (~IsWildcard(joins[j].tnames[i]) /\ Resolved(joins[j].tnames[i]))
                => joins[j].fired[i] = 1

-----------------------------------------------------------------------------
(* C2 *)

\* C2: while a name N is loading (requested, not yet resolved) a further
\* request initiates no fetch for N, so that exactly one fetch serves all the
\* requests; and the step that resolves N schedules every pending callback
\* exactly once, each with the one value N resolved to.
C2_OneFetchSameValue ==
    [][ \A n \in loading :
          /\ n \in DOMAIN onloads
          /\ PseudoPackage(n) \/ FetchesOf(fetches, n) # {}
          /\ FetchesOf(fetches', n) = FetchesOf(fetches, n)
          /\ n \notin loading' =>
                /\ n \in DOMAIN packages'
                /\ \A c \in DOMAIN onloads[n] :
                      Cardinality({ k \in DOMAIN NewTasks :
                          NewTasks[k] = [cb |-> onloads[n][c], v |-> packages'[n]] }) = 1
      ]_vars

\* One call has named the same package twice; one fetch has been made for it
\* and both callbacks have run with the same value.
C2_Witness ==
    \E j \in DOMAIN joins :
        /\ Len(joins[j].deps) = 2
        /\ joins[j].tnames[1] = joins[j].tnames[2]
        /\ joins[j].fired = << 1, 1 >>
        /\ joins[j].depPackages[1] = joins[j].depPackages[2]
        /\ Truthy(joins[j].depPackages[1])
        /\ Cardinality(FetchesOf(fetches, joins[j].tnames[1])) = 1

-----------------------------------------------------------------------------
(* C3 *)

\* C3: a package(name, deps, definition) call with N >= 1 dependencies invokes
\* the definition exactly once, and only when all N dependency callbacks have
\* run, in whatever order; while any dependency callback has not run the
\* definition has not been invoked.
C3_JoinFiresOnceAfterAll ==
    /\ \A j \in DOMAIN joins :
          /\ joins[j].count = Cardinality(Fired(joins[j]))
          /\ joins[j].defined = IF Fired(joins[j]) = DOMAIN joins[j].deps THEN 1 ELSE 0
    /\ \A name \in { joins[j].pname : j \in DOMAIN joins } :
       \A n \in { Len(joins[j].deps) : j \in DOMAIN joins } :
          (\A j \in DOMAIN joins : joins[j].pname = name => IsFunction(joins[j].def))
              => Cardinality(DefCallsOf(name, n)) = Cardinality(DefinedJoins(name, n))

\* A call with two dependencies has defined its package, the second
\* dependency having completed before the first.
C3_Witness ==
    \E j \in DOMAIN joins :
        /\ Len(joins[j].deps) = 2
        /\ joins[j].defined = 1
        /\ joins[j].tnames[1] \in DOMAIN loadOrder
        /\ joins[j].tnames[2] \in DOMAIN loadOrder
        /\ loadOrder[joins[j].tnames[2]] < loadOrder[joins[j].tnames[1]]

-----------------------------------------------------------------------------
(* C4 *)

\* C4: when the join of a package3 call fires, the i-th argument of the
\* definition is a value the i-th dependency resolved to, for every i and
\* every order of completion, also when the list names a package twice
\* (a wildcard dependency is the subject of C5).
C4_ArgumentsPositional ==
    \A j \in DOMAIN joins :
        (joins[j].defined > 0 /\ IsFunction(joins[j].def)) =>
            /\ \E k \in DOMAIN defcalls :
                  /\ defcalls[k].name = joins[j].pname
                  /\ defcalls[k].args = joins[j].depPackages
            /\ \A i \in DOMAIN joins[j].deps :
                  ~IsWildcard(joins[j].tnames[i]) =>
                      joins[j].depPackages[i] \in ResolvedValues(joins[j].tnames[i])

\* A definition has received the values of two different dependencies that
\* completed in the order opposite to their declaration.
C4_Witness ==
    \E j \in DOMAIN joins :
        /\ Len(joins[j].deps) = 2
        /\ joins[j].defined = 1
        /\ joins[j].tnames[1] # joins[j].tnames[2]
        /\ joins[j].depPackages[1] # joins[j].depPackages[2]
        /\ joins[j].tnames[1] \in DOMAIN loadOrder
        /\ joins[j].tnames[2] \in DOMAIN loadOrder
        /\ loadOrder[joins[j].tnames[2]] < loadOrder[joins[j].tnames[1]]
        /\ \E k \in DOMAIN defcalls : defcalls[k].args = joins[j].depPackages

-----------------------------------------------------------------------------
(* C5 *)

\* The keys a listing names.
ListedKeys(p) == { << heap[p.v].arr[k] >> : k \in DOMAIN heap[p.v].arr }

\* C5: the value of a wildcard dependency P.* is delivered to the dependent's
\* join only when every listed P.x has resolved, and it is an object with
\* exactly the listed keys, key x holding a value P.x resolved to; the listing
\* is the value of P.__listing__.
C5_WildcardDelivery ==
    \A j \in DOMAIN joins : \A i \in DOMAIN joins[j].deps :
        (IsWildcard(joins[j].tnames[i]) /\ joins[j].fired[i] > 0) =>
            /\ joins[j].listing[i] \in
                  ResolvedValues(ReplaceStar(joins[j].tnames[i], "__listing__"))
            /\ joins[j].depPackages[i].t = "ref"
            /\ DOMAIN heap[joins[j].depPackages[i].v].fields = ListedKeys(joins[j].listing[i])
            /\ \A key \in ListedKeys(joins[j].listing[i]) :
                  /\ Resolved(Front(joins[j].tnames[i]) \o key)
                  /\ heap[joins[j].depPackages[i].v].fields[key]
                        \in ResolvedValues(Front(joins[j].tnames[i]) \o key)

\* The wildcard a.b.* has been delivered with the two listed sub-packages.
C5_Witness ==
    \E j \in DOMAIN joins :
        /\ joins[j].tnames = << << "a", "b", "*" >> >>
        /\ joins[j].fired[1] = 1
        /\ joins[j].defined = 1
        /\ Cardinality(DOMAIN heap[joins[j].depPackages[1].v].fields) = 2

-----------------------------------------------------------------------------
(* C6 *)

\* val[c1][c2]...[cn] for the components c1..cn
RECURSIVE Navigate(_, _)
Navigate(val, components) ==
    IF components = << >> THEN val
    ELSE Navigate(GetField(heap, val, << Head(components) >>), Tail(components))

\* C6: immediately after package(name, definition) has defined c1.c2...cn,
\* packages['*'] navigated by c1..cn and, for each k in 1..n-1,
\* packages['c1...ck.*'] navigated by c(k+1)..cn yield packages['c1...cn'].
C6_PatternViews ==
    (last.act = "call" /\ last.stmt.op = "package2") =>
        /\ Navigate(PkgVal(Cur, << "*" >>), last.name) = packages[last.name]
        /\ \A k \in 1..(Len(last.name) - 1) :
              Navigate(PkgVal(Cur, SubSeq(last.name, 1, k) \o << "*" >>),
                       SubSeq(last.name, k + 1, Len(last.name))) = packages[last.name]

-----------------------------------------------------------------------------
(* C7 *)

\* C7: a dependency '.sibling' of a package3 call for a name with a parent
\* is requested under the parent of that name followed by 'sibling', whatever
\* package.__parent holds.
C7_SiblingOfDefinedPackage ==
    \A j \in DOMAIN joins : \A i \in DOMAIN joins[j].deps :
        (IsSibling(joins[j].deps[i]) /\ Len(joins[j].pname) >= 2) =>
            /\ joins[j].tnames[i] = Front(joins[j].pname) \o << joins[j].deps[i][2] >>
            /\ Requested(j, i, Front(joins[j].pname) \o << joins[j].deps[i][2] >>)

\* The embedding program has just called package('a.b.target', ['.sibling'], ..)
\* while package.__parent held the parent of another definition.
C7_Witness ==
    /\ last.act = "call"
    /\ last.stmt.op = "package3"
    /\ last.name = << "a", "b", "target" >>
    /\ parent \notin { << "a", "b" >>, << "undefined" >> }
    /\ joins[Len(joins)].pname = << "a", "b", "target" >>
    /\ joins[Len(joins)].tnames = << << "a", "b", "sibling" >> >>
    /\ << "a", "b", "sibling" >> \in loading

-----------------------------------------------------------------------------
(* C8 *)

\* Neither the name nor a pattern that covers it is configured.
NoConfigOfItsOwn(name) ==
    /\ name \notin DOMAIN config
    /\ \A k \in 1..(Len(name) - 1) : SubSeq(name, 1, k) \o << "*" >> \notin DOMAIN config

\* The step is the call s of the embedding program.
IsCall(s) == last' = Did("call", s, NoCallback, s.name) /\ ncalls' = ncalls + 1

\* C8: when package(name, [.., '.sibling', ..], ..) is called for a name
\* configured with a path dir/target.js and the sibling has no configuration
\* of its own, the sibling is configured with the path dir/sibling.js and a
\* fetch the call makes for it goes to that path; a sibling that has a
\* configuration keeps it unchanged.
C8_SiblingInheritsPath ==
    [][ \A s \in Menu :
          (IsCall(s) /\ s.op = "package3" /\ s.name \in DOMAIN config
              /\ config[s.name].kind = "object" /\ config[s.name].path # NoPath) =>
          \A i \in DOMAIN s.deps : IsSibling(s.deps[i]) =>
              /\ NoConfigOfItsOwn(Front(s.name) \o << s.deps[i][2] >>) =>
                    /\ (Front(s.name) \o << s.deps[i][2] >>) \in DOMAIN config'
                    /\ config'[Front(s.name) \o << s.deps[i][2] >>].path
                          = Front(config[s.name].path) \o << s.deps[i][2] \o ".js" >>
                    /\ \A k \in FetchesOf(fetches', Front(s.name) \o << s.deps[i][2] >>)
                                \ FetchesOf(fetches, Front(s.name) \o << s.deps[i][2] >>) :
                          fetches'[k].where
                              = Front(config[s.name].path) \o << s.deps[i][2] \o ".js" >>
                    /\ (Front(s.name) \o << s.deps[i][2] >>) \in loading
                          \/ Truthy(PkgVal(Cur, Front(s.name) \o << s.deps[i][2] >>))
                          \/ FetchesOf(fetches', Front(s.name) \o << s.deps[i][2] >>)
                                # FetchesOf(fetches, Front(s.name) \o << s.deps[i][2] >>)
              /\ (Front(s.name) \o << s.deps[i][2] >>) \in DOMAIN config =>
                    /\ (Front(s.name) \o << s.deps[i][2] >>) \in DOMAIN config'
                    /\ config'[Front(s.name) \o << s.deps[i][2] >>]
                          = config[Front(s.name) \o << s.deps[i][2] >>]
      ]_vars

\* a.b.target is configured with dir/target.js, the call has configured
\* a.b.sibling with dir/sibling.js and has fetched it from there.
C8_Witness ==
    /\ last.act = "call"
    /\ last.stmt.op = "package3"
    /\ last.name = << "a", "b", "target" >>
    /\ << "a", "b", "target" >> \in DOMAIN config
    /\ config[<< "a", "b", "target" >>].path = << "dir", "target.js" >>
    /\ << "a", "b", "sibling" >> \in DOMAIN config
    /\ config[<< "a", "b", "sibling" >>].path = << "dir", "sibling.js" >>
    /\ \E k \in DOMAIN fetches :
          /\ fetches[k].name = << "a", "b", "sibling" >>
          /\ fetches[k].where = << "dir", "sibling.js" >>

-----------------------------------------------------------------------------
(* C9 *)

\* C9: a definition function is invoked with the in-progress package object
\* (the value the name had, or a new object) as this; when it returns
\* undefined the package value is that object, when it returns another value
\* the package value is the returned value; a definition that is not a
\* function is the package value as it is.
C9_DefinitionValue ==
    [][ /\ Len(defcalls') = Len(defcalls) + 1 =>
              /\ Last(defcalls').self.t = "ref"
              /\ IF Truthy(PkgVal(Cur, Last(defcalls').name))
                 THEN Last(defcalls').self = packages[Last(defcalls').name]
                 ELSE Last(defcalls').self.v > Len(heap)
              /\ Last(defcalls').name \in DOMAIN packages'
              /\ Last(defcalls').kind = "fnThis" =>
                    packages'[Last(defcalls').name] = Last(defcalls').self
              /\ Last(defcalls').kind = "fnObject" =>
                    /\ packages'[Last(defcalls').name].t = "ref"
                    /\ packages'[Last(defcalls').name].v > Len(heap)
                    /\ packages'[Last(defcalls').name] # Last(defcalls').self
              /\ Last(defcalls').kind = "fnZero" => packages'[Last(defcalls').name] = Zero
        /\ \A s \in Menu : (IsCall(s) /\ s.op = "package2" /\ ~IsFunction(s.def)) =>
              /\ defcalls' = defcalls
              /\ s.name \in DOMAIN packages'
              /\ packages'[s.name].t = "ref"
              /\ packages'[s.name].v > Len(heap) + (IF Truthy(PkgVal(Cur, s.name)) THEN 0 ELSE 1)
              /\ heap'[packages'[s.name].v]
                    = IF s.def.kind = "array" THEN NewArr(s.def.elems) ELSE NewObj
      ]_vars

\* One definition function has returned undefined and its package is the
\* object it was invoked on; another has returned an object and its package
\* is that object.
C9_Witness ==
    \E k1, k2 \in DOMAIN defcalls :
        /\ defcalls[k1].kind = "fnThis"
        /\ packages[defcalls[k1].name] = defcalls[k1].self
        /\ defcalls[k2].kind = "fnObject"
        /\ packages[defcalls[k2].name].t = "ref"
        /\ packages[defcalls[k2].name] # defcalls[k2].self

-----------------------------------------------------------------------------
(* C10 *)

\* The lengths of the prefixes of name that are configured with a wildcard.
CoveringPrefixes(name) ==
    { k \in 1..(Len(name) - 1) : SubSeq(name, 1, k) \o << "*" >> \in DOMAIN config }

\* The step is the lookup findConfig(name) of the embedding program.
IsFind(name) == last' = Did("find", NoStmt, NoCallback, name) /\ ncalls' = ncalls + 1

\* C10 as stated: whatever a configuration function returns is cached, so no
\* configuration function is ever invoked a second time with the same
\* components.
C10_NeverInvokedAgain ==
    \A k1, k2 \in DOMAIN cfgcalls : cfgcalls[k1] = cfgcalls[k2] => k1 = k2

\* C10: findConfig(name) for a name without an entry of its own and covered
\* by one pattern only, a function, invokes the function once with the
\* components the pattern does not cover and returns its result; a truthy
\* result is cached under the name and a falsy result is not; findConfig of a
\* name with a cached result returns it without invoking any function.
C10_TruthyResultCached ==
    [][ \A name \in Names : IsFind(name) =>
          /\ (name \notin DOMAIN config /\ Cardinality(CoveringPrefixes(name)) = 1) =>
                \A k \in CoveringPrefixes(name) :
                    config[SubSeq(name, 1, k) \o << "*" >>].kind = "function" =>
                        /\ cfgcalls' = Append(cfgcalls,
                                [fn |-> config[SubSeq(name, 1, k) \o << "*" >>].fn,
                                 args |-> SubSeq(name, k + 1, Len(name))])
                        /\ Last(found').cfg = ApplyCfgFn(config[SubSeq(name, 1, k) \o << "*" >>].fn,
                                                         SubSeq(name, k + 1, Len(name)))
                        /\ IF Last(found').cfg.kind # "none"
                           THEN config' = (name :> Last(found').cfg) @@ config
                           ELSE config' = config
          /\ (name \in DOMAIN config /\ config[name].kind = "object") =>
                /\ cfgcalls' = cfgcalls
                /\ Last(found').cfg = config[name]
                /\ config' = config
      ]_vars

\* github.u.p.f has been looked up twice with the same result and the
\* function of github.* has been invoked once.
C10_Witness ==
    /\ Len(found) = 2
    /\ found[1].name = << "github", "u", "p", "f" >>
    /\ found[2].name = << "github", "u", "p", "f" >>
    /\ found[1].cfg = found[2].cfg
    /\ found[1].cfg.kind = "object"
    /\ cfgcalls = << [fn |-> "github", args |-> << "u", "p", "f" >>] >>

-----------------------------------------------------------------------------
(* C11 *)

\* C11: between scheduler turns no name is marked in loading and at the same
\* time known as a package value that a request would be answered with.
C11_OneStatePerName == \A n \in loading : ~Truthy(KnownPackage(Cur, n))

-----------------------------------------------------------------------------
(* C12 *)

\* The fetches that with_package initiates in a step.
NewRequests == { k \in DOMAIN fetches' \ DOMAIN fetches : fetches'[k].by = "with_package" }

\* C12: once the definition of a name has completed, no request initiates a
\* fetch for that name, whatever value the definition produced.
C12_NoFetchOnceDefined ==
    [][ \A k \in NewRequests : ~Resolved(fetches'[k].name) ]_vars

-----------------------------------------------------------------------------
(* C13 *)

\* C13: the completion of a name clears loading and the pending callbacks of
\* the name together, so that between scheduler turns a name whose load has
\* completed has no pending callback.
C13_LoadedHasNoPending == \A n \in DOMAIN onloads : ~Resolved(n)

-----------------------------------------------------------------------------
(* C14 *)

\* C14: package(name), package(name, def) and package(name, deps, def) with a
\* name that has a reserved component throw the invalid-name error to the
\* caller and leave packages, loading, the pending callbacks, config, aliases
\* and loadOrder (and everything else of the registry) as they were.
C14_InvalidNameThrows ==
    [][ \A s \in MenuB :
          (IsCall(s) /\ s.op \in {"package1", "package2", "package3"}
              /\ \E i \in DOMAIN s.name : s.name[i] \in Reserved) =>
              /\ thrown' = Append(thrown, "Invalid package component name")
              /\ UNCHANGED << packages, heap, loading, onloads, config, aliases, loadOrder,
                              loadCtr, parent, CONFIG, tasks, inflight, joins, fetches,
                              defcalls, completed >>
      ]_vars

\* package('toString', ['d'], ..) has just thrown in a registry that holds
\* packages, pending callbacks and names in loading.
C14_Witness ==
    /\ last.act = "call"
    /\ last.stmt.op = "package3"
    /\ last.name = << "toString" >>
    /\ thrown = << "Invalid package component name" >>
    /\ packages # << >>
    /\ loading # {}
    /\ onloads # << >>
    /\ joins = << >> \/ \A j \in DOMAIN joins : joins[j].pname # << "toString" >>

-----------------------------------------------------------------------------
(* C15 *)

\* The fetch for name has been reported failed.
Failed(name) == \E k \in DOMAIN errors : errors[k] = name

\* C15: after the fetch for a name N has failed, and as long as N is not
\* defined, N stays in loading, its pending callbacks stay pending (none is
\* handed to the scheduler), a later request only appends its callback, and
\* no further fetch for N is initiated.
C15_FailedFetchStaysLoading ==
    [][ \A n \in { errors[k] : k \in DOMAIN errors } :
          (\A k \in DOMAIN completed' : completed'[k].name # n) =>
              /\ n \in loading /\ n \in loading'
              /\ n \in DOMAIN onloads /\ n \in DOMAIN onloads'
              /\ Len(onloads'[n]) >= Len(onloads[n])
              /\ SubSeq(onloads'[n], 1, Len(onloads[n])) = onloads[n]
              /\ \A k \in NewRequests : fetches'[k].name # n
              /\ \A t \in DOMAIN NewTasks :
                    NewTasks[t].cb \notin { onloads[n][c] : c \in DOMAIN onloads[n] }
      ]_vars

\* A fetch has failed, the name is still loading after a second request, with
\* both callbacks pending and the one fetch.
C15_Witness ==
    \E n \in loading :
        /\ Failed(n)
        /\ ~Resolved(n)
        /\ n \in DOMAIN onloads
        /\ Len(onloads[n]) >= 2
        /\ Cardinality(FetchesOf(fetches, n)) = 1
        /\ tasks = << >>

-----------------------------------------------------------------------------
(* C16 *)

\* The name starts with '#'.
StartsWithHash(name) == name[1] \in HashNames

\* C16: no fetch is ever initiated for a name that starts with '#'; a
\* dependency on such a name that is not defined waits in loading with its
\* callback registered, and its callback runs only once the name has been
\* defined; '#global' is never loading and its callback receives the global
\* object.
C16_PseudoNeverFetched ==
    /\ \A k \in DOMAIN fetches : ~StartsWithHash(fetches[k].name)
    /\ << "#global" >> \notin loading
    /\ \A j \in DOMAIN joins : \A i \in DOMAIN joins[j].deps :
          StartsWithHash(joins[j].tnames[i]) =>
              IF joins[j].tnames[i] = << "#global" >>
              THEN /\ Requested(j, i, << "#global" >>)
                   /\ << "#global" >> \notin DOMAIN onloads
                   /\ joins[j].fired[i] > 0 => joins[j].depPackages[i] = Global
              ELSE /\ joins[j].fired[i] > 0 => Resolved(joins[j].tnames[i])
                   /\ ~Resolved(joins[j].tnames[i]) =>
                         /\ joins[j].tnames[i] \in loading
                         /\ joins[j].tnames[i] \in DOMAIN onloads
                         /\ Requested(j, i, joins[j].tnames[i])

\* package('h', ['#global', '#host'], ..) has been called and the callback of
\* '#global' has run with the global object, while '#host' waits in loading
\* with its callback registered and no fetch has been made.
C16_Witness ==
    \E j \in DOMAIN joins :
        /\ joins[j].tnames = << << "#global" >>, << "#host" >> >>
        /\ joins[j].fired = << 1, 0 >>
        /\ joins[j].depPackages[1] = Global
        /\ << "#host" >> \in loading
        /\ << "#host" >> \in DOMAIN onloads
        /\ onloads[<< "#host" >>] = << Callback("dep", j, 2, "", << >>) >>
        /\ fetches = << >>

-----------------------------------------------------------------------------
(* C17 *)

\* C17: after package.declare has marked a name that was not loaded, no
\* request ever initiates a fetch for that name.
C17_DeclaredNeverFetched ==
    [][ \A k \in NewRequests : fetches'[k].name \notin declared ]_vars

-----------------------------------------------------------------------------
(* C18 *)

\* C18: when an alias is registered for a package that is already loaded,
\* packages[alias] is the value of the package as soon as the registration
\* returns.
C18_AliasOfLoadedIsSet ==
    [][ \A a \in DOMAIN aliases' \ DOMAIN aliases :
            Resolved(aliases'[a]) =>
                /\ a \in DOMAIN packages'
                /\ aliases'[a] \in DOMAIN packages'
                /\ packages'[a] = packages'[aliases'[a]] ]_vars

-----------------------------------------------------------------------------
(* C19 *)

\* The two configurations say the same: the same function, or objects with
\* the same keys and values.
SameConfiguration(a, b) ==
    /\ a.kind = b.kind
    /\ a.fn = b.fn
    /\ { a.pairs[n] : n \in DOMAIN a.pairs } = { b.pairs[n] : n \in DOMAIN b.pairs }

\* C19: a package.config entry of the scanner for a name that has a recorded
\* configuration aborts the scan exactly when the two configurations differ
\* and the new one is not a path configuration replacing a non-path one.
C19_ConflictRule ==
    \A n \in DOMAIN scanner.log :
        scanner.log[n].had =>
            (scanner.log[n].conflict <=>
                /\ ~SameConfiguration(scanner.log[n].old, scanner.log[n].new)
                /\ ~(HasPath(scanner.log[n].new) /\ ~HasPath(scanner.log[n].old)))

-----------------------------------------------------------------------------
(* C20 *)

\* The scanner run to its end from the state sc.
RECURSIVE ScanRun(_)
ScanRun(sc) == IF sc.aborted \/ sc.out.written THEN sc ELSE ScanRun(IterBody(sc))

\* Whether the scan of the command line argv aborts, and the map it emits.
Outcome(argv) ==
    Let(ScanRun([ScanInit EXCEPT !.started = TRUE, !.slicedArgs = argv]), LAMBDA sc :
        [aborted |-> sc.aborted, map |-> sc.out.map])

\* The command lines that give the same files in another order.
Reorderings(argv) ==
    { [n \in DOMAIN argv |-> argv[f[n]]] : f \in Permutations(DOMAIN argv) }

\* C20: when a scan has ended, the scan of the same files in any other order
\* ends the same way: it aborts or not alike and emits the same map.
C20_OrderIrrelevant ==
    (scanner.aborted \/ scanner.out.written) =>
        \A argv \in Reorderings(scanner.slicedArgs) :
            Outcome(argv) = [aborted |-> scanner.aborted, map |-> scanner.out.map]

-----------------------------------------------------------------------------
(* C21 *)

\* The names and definitions the two forms of package(..) are compared on.
EquivNames == { << "a", "b", "c" >>, << "z" >>, << "github", "u", "p", "h" >>, << "D" >> }

EquivDefs == { Def("object", << >>), Def("fnThis", << >>), Def("fnZero", << >>) }

\* What a call of package(..) for name returns and the registry it leaves.
Left(st, name) ==
    [returned |-> PkgVal(st, TrueName(st, name)),
     packages |-> st.packages, heap |-> st.heap, loading |-> st.loading,
     onloads |-> st.onloads, tasks |-> st.tasks, config |-> st.config,
     loadOrder |-> st.loadOrder, thrown |-> st.thrown]

\* C21: from every registry state, package(name, definition) and
\* package(name, [], definition) return the same value and leave the same
\* registry (packages, pattern views, loading, pending callbacks, config,
\* loadOrder).
C21_TwoArgsAsThreeArgs ==
    \A name \in EquivNames : \A definition \in EquivDefs :
        Left(Run(Package2(Cur, name, definition)), name)
            = Left(Run(Package3(Cur, name, << >>, definition)), name)

-----------------------------------------------------------------------------
(* C22 *)

\* C22: the location chosen for a fetch is always defined: the absolute url
\* of the configuration, else its path, else the path derived from the name.
C22_LocationDefined ==
    [][ \A k \in DOMAIN fetches' \ DOMAIN fetches :
            /\ fetches'[k].where # NoPath
            /\ \/ IsAbsoluteURL(fetches'[k].where)
               \/ fetches'[k].where = DerivedPath(fetches'[k].name)
               \/ \E p \in DOMAIN config' : config'[p].path = fetches'[k].where ]_vars

-----------------------------------------------------------------------------
(* C23 *)

\* The bundler has written a definition of name.
Emitted(name) ==
    \E n \in DOMAIN bundler.out : bundler.out[n].k = "def" /\ bundler.out[n].name = name

\* The bundler has nothing left to do and no load has failed.
BuildDone ==
    /\ bundler.started
    /\ bundler.tasks = << >>
    /\ bundler.inflight = << >>
    /\ bundler.errors = << >>

\* C23: when the bundler has finished, its output holds a definition of
\* every package that an emitted package depends on, also of a dependency
\* that is a prefix of a name defined earlier.
C23_ClosureEmitted ==
    BuildDone =>
        \A j \in DOMAIN bundler.joins : \A i \in DOMAIN bundler.joins[j].deps :
            ~StartsWithHash(bundler.joins[j].tnames[i]) => Emitted(bundler.joins[j].tnames[i])

-----------------------------------------------------------------------------
(* C24 *)

\* The entry of cfgmap for the part of step i of the reference search: the
\* name itself, then the prefixes followed by '*', down to '*' alone.
RefEntry(cfgmap, components, i) ==
    IF i = 0
    THEN (IF components \in DOMAIN cfgmap THEN cfgmap[components] ELSE NoCfg)
    ELSE IF SubSeq(components, 1, Len(components) - i) \o << "*" >> \in DOMAIN cfgmap
    THEN cfgmap[SubSeq(components, 1, Len(components) - i) \o << "*" >>]
    ELSE NoCfg

\* The reference search from step i on.
RECURSIVE RefFind(_, _, _)
RefFind(cfgmap, components, i) ==
    IF i > Len(components) THEN NoCfg
    ELSE IF RefEntry(cfgmap, components, i).kind = "object"
    THEN RefEntry(cfgmap, components, i)
    ELSE IF /\ RefEntry(cfgmap, components, i).kind = "function"
            /\ ApplyCfgFn(RefEntry(cfgmap, components, i).fn,
                          SubSeq(components, Len(components) - i + 1, Len(components))).kind # "none"
    THEN ApplyCfgFn(RefEntry(cfgmap, components, i).fn,
                    SubSeq(components, Len(components) - i + 1, Len(components)))
    ELSE RefFind(cfgmap, components, i + 1)

\* C24: findConfig(name) returns what the reference search finds in config.
C24_FindConfigIsReferenceSearch ==
    [][ \A name \in Names : IsFind(name) => Last(found').cfg = RefFind(config, name, 0) ]_vars

-----------------------------------------------------------------------------
(* C25 *)

\* The acquisition fs[k] follows the priority, cfgmap being the
\* configurations once the request has returned: the external loader for an
\* external specification, else the absolute url, else the explicit or
\* derived path.
ByPriority(fs, k, cfgmap) ==
    IF fs[k].name \in DOMAIN cfgmap /\ HasExternal(cfgmap[fs[k].name])
    THEN fs[k].by = "external"
    ELSE IF fs[k].name \in DOMAIN cfgmap /\ IsAbsoluteURL(cfgmap[fs[k].name].url)
    THEN fs[k].where = cfgmap[fs[k].name].url
    ELSE IF fs[k].name \in DOMAIN cfgmap
    THEN fs[k].where = cfgmap[fs[k].name].path
    ELSE fs[k].where = DerivedPath(fs[k].name)

\* C25: a request of the loader for an unseen name that is not a pseudo
\* package initiates one acquisition, chosen by the priority.
C25_AcquisitionByPriority ==
    [][ \A k \in NewRequests :
            /\ ByPriority(fetches', k, config')
            /\ \A k2 \in NewRequests : fetches'[k2].name = fetches'[k].name => k2 = k ]_vars

-----------------------------------------------------------------------------
(* C26 *)

\* The completion of name has happened and delivered val; the pattern views
\* hold a name under trueName of its first component.
Completed(name, val) ==
    /\ PkgVal(Cur, name) = val
    /\ Navigate(PkgVal(Cur, << "*" >>), Flatten(PatternComponents(Cur, name))) = val
    /\ name \notin loading
    /\ name \in DOMAIN loadOrder

\* The completion of the name the callback cb was queued for has happened and
\* delivered val: the name is the dependency of the join, the listing of a
\* wildcard dependency, one listed sub-package, the package an alias stands
\* for, or the listing of a sub-directory of the listing being synthesized.
CompletedFor(cb, val) ==
    CASE cb.k = "dep" -> Completed(joins[cb.j].tnames[cb.i], val)
      [] cb.k = "listing" ->
            Completed(ReplaceStar(joins[cb.j].tnames[cb.i], "__listing__"), val)
      [] cb.k = "sub" -> Completed(ReplaceStar(joins[cb.j].tnames[cb.i], cb.sub), val)
      [] cb.k = "alias" -> Completed(aliases[cb.name], val)
      [] cb.k = "subdir" ->
            \E n \in DOMAIN packages :
                /\ Len(n) = Len(cb.name) + 1
                /\ Last(n) = "__listing__"
                /\ SubSeq(n, 1, Len(n) - 2) = Front(cb.name)
                /\ Completed(n, val)
      [] OTHER -> FALSE

\* The step runs a callback that addOnLoad had queued.
RunsPending == tasks # << >> /\ last'.act = "task" /\ Head(tasks).cb \in pended

\* C26: when the scheduler runs a callback that was pending for N, the
\* completion of N has fully happened: packages[N] is the value handed to the
\* callback, the pattern views lead to it, N is not loading, loadOrder[N] is
\* assigned and no pending list holds the callback; and a step that completes
\* N hands every pending callback of N to the scheduler and runs none.
C26_CallbackAfterCompletion ==
    [][ /\ RunsPending =>
            /\ CompletedFor(Head(tasks).cb, Head(tasks).v)
            /\ Head(tasks).cb.k \in {"dep", "listing", "sub"} =>
                  \A n \in DOMAIN onloads :
                      \A i \in DOMAIN onloads[n] : onloads[n][i] # Head(tasks).cb
        /\ last'.act # "task" =>
              \A n \in DOMAIN onloads \ DOMAIN onloads' :
                  \A i \in DOMAIN onloads[n] :
                      /\ \E t \in DOMAIN tasks' : tasks'[t].cb = onloads[n][i]
                      /\ onloads[n][i].k = "dep" =>
                            joins'[onloads[n][i].j].fired[onloads[n][i].i]
                              = joins[onloads[n][i].j].fired[onloads[n][i].i] ]_vars

-----------------------------------------------------------------------------
(* C27 *)

\* The runs of onPackageLoaded a step makes, by their place in the history.
NewCompletions == (DOMAIN completed') \ (DOMAIN completed)

\* C27: a step changes loadOrder[n] only by completing n, with a number taken
\* from the counter, which grows; a name that completed before a different
\* name holds the smaller number; no two names hold the same number.
C27_LoadOrderFollowsCompletion ==
    [][ /\ \A n \in DOMAIN loadOrder' :
              (n \notin DOMAIN loadOrder \/ loadOrder'[n] # loadOrder[n]) =>
                  /\ \E k \in NewCompletions : completed'[k].name = n
                  /\ loadCtr <= loadOrder'[n]
                  /\ loadOrder'[n] < loadCtr'
        /\ DOMAIN loadOrder \subseteq DOMAIN loadOrder'
        /\ \A a, b \in DOMAIN completed' :
              (a < b /\ completed'[a].name # completed'[b].name) =>
                  loadOrder'[completed'[a].name] < loadOrder'[completed'[b].name]
        /\ \A n1, n2 \in DOMAIN loadOrder' :
              loadOrder'[n1] = loadOrder'[n2] => n1 = n2 ]_vars

-----------------------------------------------------------------------------
(* C28 *)

\* The listings of the sub-directories of the directory whose synthesized
\* listing is name.
SubListings(name) ==
    { Front(name) \o << Dirs[Front(name)].dirs[i], "__listing__" >> :
          i \in DOMAIN Dirs[Front(name)].dirs }

\* The listing name is synthesized from a directory that has sub-directories.
HasSubDirs(name) == name \in DOMAIN subDirs

\* C28: a listing synthesized from a directory with sub-directories
\* completes only after the listing of every sub-directory has completed,
\* and the callback of a request for it runs only after that.
C28_ListingAfterSubListings ==
    [][ /\ \A k \in NewCompletions :
              HasSubDirs(completed'[k].name) =>
                  \A n \in SubListings(completed'[k].name) :
                      \E k2 \in 1..(k - 1) : completed'[k2].name = n
        /\ (tasks # << >> /\ last'.act = "task" /\ Head(tasks).cb.k = "listing"
              /\ HasSubDirs(ReplaceStar(joins[Head(tasks).cb.j].tnames[Head(tasks).cb.i],
                                        "__listing__"))) =>
              \A n \in SubListings(ReplaceStar(
                           joins[Head(tasks).cb.j].tnames[Head(tasks).cb.i],
                           "__listing__")) : Resolved(n) ]_vars

-----------------------------------------------------------------------------
(* C29 *)

\* The names of packages that are not pattern views.
PlainNames(pkgs) == { n \in DOMAIN pkgs : Last(n) # "*" }

\* C29: once packages[N] holds a value for a name N that is not a pattern
\* view, no step replaces or removes that value.
C29_PackagesAppendOnly ==
    [][ \A n \in PlainNames(packages) :
            n \in DOMAIN packages' /\ packages'[n] = packages[n] ]_vars

-----------------------------------------------------------------------------
(* C30 *)

\* The names that are written in calls: the aliases, what they stand for and
\* a relative name.
WrittenNames ==
    DOMAIN aliases \cup { aliases[a] : a \in DOMAIN aliases } \cup { << "", "sibling" >> }

\* C30: trueName(trueName(n)) = trueName(n) for every name n in every state,
\* and a request fetches, and a definition completes, only the name the
\* written name resolves to, which is not itself an alias.
C30_TrueNameIdempotent ==
    /\ [](\A n \in WrittenNames : TrueName(Cur, TrueName(Cur, n)) = TrueName(Cur, n))
    /\ [][ /\ \A k \in NewRequests : fetches'[k].name \notin DOMAIN aliases
           /\ \A s \in MenuB :
                 (IsCall(s) /\ s.op \in {"package2", "package3"}) =>
                     \A k \in NewCompletions :
                         completed'[k].name \notin DOMAIN aliases ]_vars

-----------------------------------------------------------------------------
(* C31 *)

\* C31: a relative dependency ('.x', '.x.y') of a package3 call for a name
\* with a parent is resolved against the parent of that name, whatever
\* package.__parent was left holding by another definition.
C31_RelativeAgainstOwnParent ==
    \A j \in DOMAIN joins : \A i \in DOMAIN joins[j].deps :
        (IsRelative(joins[j].deps[i]) /\ Len(joins[j].pname) >= 2) =>
            joins[j].tnames[i] = Concat(Front(joins[j].pname), joins[j].deps[i])

-----------------------------------------------------------------------------
(* C32 *)

\* The number of names in the listing delivered for dependency i of call j.
ListedCount(j, i) == Len(heap[joins[j].listing[i].v].arr)

\* C32: once the listing of a wildcard dependency has been delivered, the
\* dependency is satisfied exactly when as many sub-package callbacks have
\* run as the listing has names, zero included, at most once and with the
\* object that holds the sub-packages.
C32_WildcardCountDown ==
    \A j \in DOMAIN joins : \A i \in DOMAIN joins[j].deps :
        (IsWildcard(joins[j].tnames[i]) /\ joins[j].listing[i] # Undef) =>
            /\ joins[j].fired[i] <= 1
            /\ joins[j].fired[i] = 1 <=> joins[j].subPkgCount[i] = ListedCount(j, i)
            /\ joins[j].fired[i] = 1 => joins[j].depPackages[i] = joins[j].subPkgs[i]

-----------------------------------------------------------------------------
(* C33 *)

\* The names that have completed and are neither pattern views nor aliases.
DefinedNames == { n \in PlainNames(packages) : n \in DOMAIN loadOrder /\ n \notin DOMAIN aliases }

\* C33: in every state, for every defined name c1...cn, packages['*']
\* navigated by c1..cn and, for each k in 1..n-1, packages['c1...ck.*']
\* navigated by c(k+1)..cn yield the current value of packages['c1...cn'].
C33_ViewsFollowDefinitions ==
    \A n \in DefinedNames :
        /\ Navigate(PkgVal(Cur, << "*" >>), n) = packages[n]
        /\ \A k \in 1..(Len(n) - 1) :
              Navigate(PkgVal(Cur, SubSeq(n, 1, k) \o << "*" >>), SubSeq(n, k + 1, Len(n)))
                  = packages[n]

-----------------------------------------------------------------------------
(* C34 *)

\* The names whose package3 call has been made and still waits for its
\* dependencies.
Awaiting == { joins[j].pname : j \in { i \in DOMAIN joins : joins[i].defined = 0 } }

\* C34: no step initiates a fetch for a name whose definition has been
\* invoked and waits for its dependencies, and the callback of a request for
\* such a name runs only when the name has been defined.
C34_AwaitingIsNotUnseen ==
    [][ /\ \A k \in NewRequests : fetches'[k].name \notin Awaiting
        /\ (tasks # << >> /\ last'.act = "task" /\ Head(tasks).cb.k = "dep") =>
              Resolved(joins[Head(tasks).cb.j].tnames[Head(tasks).cb.i]) ]_vars

-----------------------------------------------------------------------------
(* C35 *)

\* C35: at most one fetch is ever initiated for a name, whichever entry
\* point asks for it, and a step that is a call of package(N) for a name N
\* that is loading initiates none.
C35_OneFetchPerName ==
    [][ /\ \A k1, k2 \in DOMAIN fetches' :
              fetches'[k1].name = fetches'[k2].name => k1 = k2
        /\ \A s \in MenuC :
              (IsCall(s) /\ s.op = "package1" /\ s.name \in loading) =>
                  fetches' = fetches /\ defcalls' = defcalls /\ joins' = joins ]_vars

-----------------------------------------------------------------------------
(* C36 *)

\* The package3 calls with dependencies that a run can hold: those of the
\* embedding program and those of the files they load.
JoinIds == 1..(2 * MaxCalls)

\* The definition of call j has been invoked and the callback of each of its
\* requests has run.
Fulfilled(j) ==
    /\ j \in DOMAIN joins
    /\ joins[j].defined > 0
    /\ \A i \in DOMAIN joins[j].deps : joins[j].fired[i] > 0

\* C36: when every fetch succeeds and defines its name, no dependency is a
\* wildcard and the dependencies form no cycle, every package3 call is
\* eventually followed by the invocation of its definition and of the
\* callback of each of its requests.
C36_EveryDefinitionInvoked ==
    \A j \in JoinIds : (j \in DOMAIN joins) ~> Fulfilled(j)

\* A definition has been invoked whose dependency was read from a url that
\* the file of another dependency had requested.
C36_Witness ==
    \E j \in DOMAIN joins :
        /\ joins[j].pname = << "s" >>
        /\ Fulfilled(j)
        /\ \E k \in DOMAIN fetches : fetches[k].name = << "github", "u", "p", "f" >>

-----------------------------------------------------------------------------
(* C37 *)

\* The closures for callback cb among those the step hands to delay(), by
\* their place.
Handed(cb) == { k \in DOMAIN NewTasks : NewTasks[k].cb = cb }

\* The runs of onPackageLoaded(n) the step makes.
CompletionsOf(n) == { k \in NewCompletions : completed'[k].name = n }

\* The first of them.
FirstCompletion(n) == CHOOSE k \in CompletionsOf(n) : \A m \in CompletionsOf(n) : k <= m

\* C37: the pending callbacks of a name are kept in the order of their
\* registration and the step that completes the name hands them to the
\* scheduler in that order, each with the value the name had at that
\* completion; the scheduler runs the closure at the head of its queue and
\* keeps the others in their order, so that the first registered is the first
\* invoked.
C37_PendingFifo ==
    [][ /\ \A n \in DOMAIN onloads :
              /\ (CompletionsOf(n) = {} /\ n \in DOMAIN onloads') =>
                    /\ Len(onloads[n]) <= Len(onloads'[n])
                    /\ SubSeq(onloads'[n], 1, Len(onloads[n])) = onloads[n]
              /\ CompletionsOf(n) # {} =>
                    /\ \A a \in DOMAIN onloads[n] :
                          \E ka \in Handed(onloads[n][a]) :
                              NewTasks[ka].v = completed'[FirstCompletion(n)].val
                    /\ \A a, b \in DOMAIN onloads[n] :
                          a < b => \E ka \in Handed(onloads[n][a]), kb \in Handed(onloads[n][b]) :
                                       ka < kb
        /\ last'.act = "task" =>
              /\ Len(tasks') >= Len(tasks) - 1
              /\ SubSeq(tasks', 1, Len(tasks) - 1) = Tail(tasks)
              /\ \A j \in DOMAIN joins : \A i \in DOMAIN joins[j].deps :
                    joins'[j].fired[i] # joins[j].fired[i] =>
                        /\ Head(tasks).cb.k \in {"dep", "listing", "sub"}
                        /\ Head(tasks).cb.j = j
                        /\ Head(tasks).cb.i = i
                        /\ Head(tasks).cb.k = "dep" =>
                              joins'[j].depPackages[i] = Head(tasks).v
        /\ last'.act # "task" =>
              /\ Len(tasks') >= Len(tasks)
              /\ SubSeq(tasks', 1, Len(tasks)) = tasks
              /\ \A j \in DOMAIN joins : joins'[j].fired = joins[j].fired ]_vars

\* Two calls have asked for one name before it was loaded, one fetch has
\* served both and both callbacks have run.
C37_Witness ==
    \E j1, j2 \in DOMAIN joins :
        /\ j1 < j2
        /\ \E i1 \in DOMAIN joins[j1].deps, i2 \in DOMAIN joins[j2].deps :
              /\ joins[j1].tnames[i1] = joins[j2].tnames[i2]
              /\ joins[j1].fired[i1] = 1
              /\ joins[j2].fired[i2] = 1
              /\ joins[j1].depPackages[i1] = joins[j2].depPackages[i2]
              /\ \E k \in DOMAIN completed : completed[k].name = joins[j1].tnames[i1]

-----------------------------------------------------------------------------
(* C38 *)

\* C38: the request made for a relative dependency of a package3 call names
\* a package other than the one the call defines, whatever the number of
\* components of that name.
C38_RelativeNotSelf ==
    \A j \in DOMAIN joins : \A i \in DOMAIN joins[j].deps :
        IsRelative(joins[j].deps[i]) => joins[j].tnames[i] # joins[j].pname

-----------------------------------------------------------------------------
(* C39 *)

\* The invocations of a definition function the step makes.
NewDefCalls == (DOMAIN defcalls') \ (DOMAIN defcalls)

\* The names whose definition function the step invokes and which throws.
ThrownFor == { defcalls'[k].name : k \in { d \in NewDefCalls : defcalls'[d].kind = "fnThrow" } }

\* C39: a step in which the definition function of a name throws leaves the
\* registry as it was for that name: packages[name] is what it was (absent
\* when it was absent), no pending callback of the name is handed to the
\* scheduler and the pending list is kept, and the pattern views and
\* loadOrder gain no entry for the name.
C39_ThrowLeavesRegistry ==
    [][ \A n \in ThrownFor :
          /\ PkgVal([packages |-> packages'], n) = PkgVal([packages |-> packages], n)
          /\ (n \in DOMAIN packages') = (n \in DOMAIN packages)
          /\ n \in DOMAIN onloads =>
                /\ n \in DOMAIN onloads'
                /\ onloads'[n] = onloads[n]
                /\ \A c \in DOMAIN onloads[n] : Handed(onloads[n][c]) = {}
          /\ (n \in DOMAIN loadOrder') = (n \in DOMAIN loadOrder)
          /\ \A k \in NewCompletions : completed'[k].name # n ]_vars

-----------------------------------------------------------------------------
(* C40 *)

\* val[c1][c2]...[cn] in the heap hp
RECURSIVE NavigateIn(_, _, _)
NavigateIn(hp, val, components) ==
    IF components = << >> THEN val
    ELSE NavigateIn(hp, GetField(hp, val, << Head(components) >>), Tail(components))

\* What the view of the first k components of n ('*' for k = 0) holds for n,
\* with the packages pk and the heap hp.
ViewEntry(pk, hp, n, k) ==
    NavigateIn(hp, PkgVal([packages |-> pk], SubSeq(n, 1, k) \o << "*" >>),
               SubSeq(n, k + 1, Len(n)))

\* The step is a call package(N, function () { }) for a name N that has been
\* defined.
Redefines(n) ==
    /\ last'.act = "call"
    /\ last'.stmt.op = "package2"
    /\ last'.stmt.def.kind = "fnThis"
    /\ last'.stmt.name = n
    /\ Resolved(n)

\* C40: a call package(N, def) for a defined name N, def returning undefined,
\* invokes def once with the value of N as this, leaves packages[N] the same
\* value and every pattern view holding for N what it held before, and
\* initiates no fetch.
C40_AugmentedInPlace ==
    [][ \A s \in MenuD :
          Redefines(s.name) =>
              /\ Cardinality(NewDefCalls) = 1
              /\ \A k \in NewDefCalls :
                    /\ defcalls'[k].name = s.name
                    /\ defcalls'[k].self = PkgVal([packages |-> packages], s.name)
              /\ PkgVal([packages |-> packages'], s.name) = PkgVal([packages |-> packages], s.name)
              /\ \A k \in 0..(Len(s.name) - 1) :
                    ViewEntry(packages', heap', s.name, k) = ViewEntry(packages, heap, s.name, k)
              /\ fetches' = fetches ]_vars

====
